---- MODULE Spec2Model ----
(***************************************************************************)
(* SmoothScroller (src/smooth-scroller.js): the per-container scroll       *)
(* animation state machine and the cubic-Bezier easing solver.             *)
(*                                                                         *)
(* Numbers.  JavaScript numbers are modelled in fixed point:               *)
(*   - ratios, control points and polynomial values are integers counting  *)
(*     1/Scale (Scale = 10^6), products and quotients rounded down;        *)
(*   - scroll offsets and requested coordinates are integers counting      *)
(*     1/Px of a CSS pixel, so the code's "1" (one pixel) is Px;           *)
(*   - times are integers counting milliseconds;                           *)
(*   - NaN is a reserved integer no computation of the model produces.     *)
(***************************************************************************)
EXTENDS Integers, Sequences, FiniteSets, TLC

VARIABLES
  dom,          \* element -> its scroll geometry and offsets
  scrollerMap,  \* the elements SmoothScroller.#scrollerMap holds an instance for
  scroller,     \* element -> the private fields of its SmoothScroller instance
  promises,     \* the promises returned so far, in order of creation
  raf,          \* the animation-frame callbacks scheduled and not yet run
  nextRafId,    \* the handle the next requestAnimationFrame returns
  now,          \* the timestamp of the latest animation frame
  emitted,      \* what the latest handler resolved and dispatched, in order
  call,         \* the latest handler run, its arguments and, of a scroll request,
                \* its limit-corrected target
  probe,        \* a CubicBezierSolver used on its own: the easing, x and
                \* epsilon it is given, then the solver made and what it solved
  constructed,  \* the containers SmoothScroller instances were constructed
                \* for, in the order of construction
  variant       \* an instance of the earlier SmoothScroller class (constructor,
                \* smoothScrollTo, abortPriorScrolls) with its page

vars == <<dom, scrollerMap, scroller, promises, raf, nextRafId, now, emitted,
          call, probe, constructed, variant>>

(***************************************************************************)
(* Numbers                                                                 *)
(***************************************************************************)
NaN == -1000000000

\* the number Infinity, which allowFiniteNumbersOnly does not let pass
Infinity == 1000000000

Base == 10 ^ 3
Scale == Base * Base

Px == 2

IsNaN(a) == a = NaN

Abs(a) == IF a < 0 THEN -a ELSE a

\* Math.abs, NaN-preserving
MathAbs(a) == IF IsNaN(a) THEN NaN ELSE Abs(a)

\* a - b of JavaScript numbers, NaN-preserving
Minus(a, b) == IF IsNaN(a) \/ IsNaN(b) THEN NaN ELSE a - b

Min(a, b) == IF a < b THEN a ELSE b

\* floor(a * b / Scale), computed limb-wise so that no intermediate value
\* leaves the 32-bit range
MulFix(a, b) ==
  LET a1 == a \div Base
      a0 == a % Base
      b1 == b \div Base
      b0 == b % Base
  IN  a1 * b1 + ((a1 * b0 + a0 * b1 + ((a0 * b0) \div Base)) \div Base)

\* floor(n * Scale / d) for n >= 0, d > 0, by long division in base 100
DivFixPos(n, d) ==
  LET q0 == n \div d
      r0 == n % d
      q1 == (r0 * 100) \div d
      r1 == (r0 * 100) % d
      q2 == (r1 * 100) \div d
      r2 == (r1 * 100) % d
      q3 == (r2 * 100) \div d
  IN  q0 * Scale + q1 * 10000 + q2 * 100 + q3

\* n / d in fixed point (d # 0), rounded toward zero
DivFix(n, d) ==
  LET q == DivFixPos(Abs(n), Abs(d))
  IN  IF (n < 0) = (d < 0) THEN q ELSE -q

\* floor(sqrt(n)) for n >= 0
ISqrt(n) == CHOOSE r \in 0..n : r * r <= n /\ (r + 1) * (r + 1) > n

\* Math.hypot(a, b)
MathHypot(a, b) ==
  IF IsNaN(a) \/ IsNaN(b) THEN NaN ELSE ISqrt(a * a + b * b)

(***************************************************************************)
(* CubicBezierSolver                                                       *)
(***************************************************************************)
\* control points in 1/Scale: <<p1x, p1y, p2x, p2y>>
easingKeywordMap ==
  ("ease" :> <<250000, 100000, 250000, 1000000>>) @@
  ("ease-in" :> <<420000, 0, 1000000, 1000000>>) @@
  ("ease-out" :> <<0, 0, 580000, 1000000>>) @@
  ("ease-in-out" :> <<420000, 0, 580000, 1000000>>) @@
  ("linear" :> <<0, 0, 1000000, 1000000>>)

EasingKeywords == DOMAIN easingKeywordMap

\* a solver whose coefficient ay leaves out by
CubicBezierSolverWithoutBy(controlPoints) ==
  LET p1x == controlPoints[1]
      p1y == controlPoints[2]
      p2x == controlPoints[3]
      p2y == controlPoints[4]
      cx == 3 * p1x
      bx == 3 * (p2x - p1x) - cx
      ax == Scale - cx - bx
      cy == 3 * p1y
      by == 3 * (p2y - p1y) - cy
      ay == Scale - cy
  IN  [controlPoints |-> controlPoints,
       ax |-> ax, bx |-> bx, cx |-> cx, ay |-> ay, by |-> by, cy |-> cy]

\* new CubicBezierSolver(controlPoints) for a validated 4-tuple
CubicBezierSolver(controlPoints) ==
  LET p1x == controlPoints[1]
      p1y == controlPoints[2]
      p2x == controlPoints[3]
      p2y == controlPoints[4]
      cx == 3 * p1x
      bx == 3 * (p2x - p1x) - cx
      ax == Scale - cx - bx
      cy == 3 * p1y
      by == 3 * (p2y - p1y) - cy
      ay == Scale - cy - by
  IN  [controlPoints |-> controlPoints,
       ax |-> ax, bx |-> bx, cx |-> cx, ay |-> ay, by |-> by, cy |-> cy]

controlPointsMatchCurrentControlPoints(solver, pts) ==
  /\ pts[1] = solver.controlPoints[1]
  /\ pts[2] = solver.controlPoints[2]
  /\ pts[3] = solver.controlPoints[3]
  /\ pts[4] = solver.controlPoints[4]

sampleCurveX(solver, t) ==
  MulFix(MulFix(MulFix(solver.ax, t) + solver.bx, t) + solver.cx, t)

\* a y polynomial that drops its linear coefficient
sampleCurveYWithoutCy(solver, t) ==
  MulFix(MulFix(MulFix(solver.ay, t) + solver.by, t), t)

sampleCurveY(solver, t) ==
  MulFix(MulFix(MulFix(solver.ay, t) + solver.by, t) + solver.cy, t)

sampleCurveDerivativeX(solver, t) ==
  MulFix(MulFix(3 * solver.ax, t) + 2 * solver.bx, t) + solver.cx

NewtonIterations == 8

\* a Newton loop that takes its first estimate without the tolerance test
NewtonWithoutTest(solver, x, epsilon, i, t2) ==
  [accepted |-> TRUE, t |-> t2, left |-> "tolerance", steps |-> <<t2>>]

\* the Newton loop of solveCurveX from iteration i with estimate t2:
\* accepted is TRUE when the tolerance test returns t, FALSE when the loop
\* ends (8 iterations, or the derivative magnitude below 1e-6, which in
\* 1/Scale is a derivative of 0); left tells which; steps are the estimates
\* the iterations began with
RECURSIVE Newton(_, _, _, _, _)
Newton(solver, x, epsilon, i, t2) ==
  IF i >= NewtonIterations
  THEN [accepted |-> FALSE, t |-> t2, left |-> "iterations", steps |-> <<>>]
  ELSE LET x2 == sampleCurveX(solver, t2) - x
           d2 == sampleCurveDerivativeX(solver, t2)
       IN  IF Abs(x2) < epsilon
           THEN [accepted |-> TRUE, t |-> t2, left |-> "tolerance",
                 steps |-> <<t2>>]
           ELSE IF Abs(d2) < 1
           THEN [accepted |-> FALSE, t |-> t2, left |-> "derivative",
                 steps |-> <<t2>>]
           ELSE [Newton(solver, x, epsilon, i + 1, t2 - DivFix(x2, d2))
                 EXCEPT !.steps = <<t2>> \o @]

\* a bisection loop whose next estimate is half the bracket's width, without
\* the offset t0
RECURSIVE BisectionWithoutOffset(_, _, _, _, _, _)
BisectionWithoutOffset(solver, x, epsilon, t0, t1, t2) ==
  IF ~(t0 < t1)
  THEN [returns |-> TRUE, t |-> t2, left |-> "bracket", steps |-> <<>>]
  ELSE LET x2 == sampleCurveX(solver, t2)
       IN  IF Abs(x2 - x) < epsilon
           THEN [returns |-> TRUE, t |-> t2, left |-> "tolerance",
                 steps |-> <<<<t0, t1, t2>>>>]
           ELSE LET n0 == IF x > x2 THEN t2 ELSE t0
                    n1 == IF x > x2 THEN t1 ELSE t2
                    n2 == (n1 - n0) \div 2
                IN  IF n0 = t0 /\ n1 = t1 /\ n2 = t2
                    THEN [returns |-> FALSE, t |-> t2, left |-> "never",
                          steps |-> <<<<t0, t1, t2>>>>]
                    ELSE [BisectionWithoutOffset(solver, x, epsilon, n0, n1, n2)
                          EXCEPT !.steps = <<<<t0, t1, t2>>>> \o @]

\* the bisection loop of solveCurveX: while (t0 < t1) {...}.
\* returns is TRUE when the loop returns t (left "tolerance") or ends with t
\* (left "bracket"), FALSE when an iteration leaves t0, t1 and t2 as they
\* were, from where the loop repeats that iteration for ever (left "never");
\* steps are the <<t0, t1, t2>> the iterations began with
RECURSIVE Bisection(_, _, _, _, _, _)
Bisection(solver, x, epsilon, t0, t1, t2) ==
  IF ~(t0 < t1)
  THEN [returns |-> TRUE, t |-> t2, left |-> "bracket", steps |-> <<>>]
  ELSE LET x2 == sampleCurveX(solver, t2)
       IN  IF Abs(x2 - x) < epsilon
           THEN [returns |-> TRUE, t |-> t2, left |-> "tolerance",
                 steps |-> <<<<t0, t1, t2>>>>]
           ELSE LET n0 == IF x > x2 THEN t2 ELSE t0
                    n1 == IF x > x2 THEN t1 ELSE t2
                    n2 == ((n1 - n0) \div 2) + n0
                IN  IF n0 = t0 /\ n1 = t1 /\ n2 = t2
                    THEN [returns |-> FALSE, t |-> t2, left |-> "never",
                          steps |-> <<<<t0, t1, t2>>>>]
                    ELSE [Bisection(solver, x, epsilon, n0, n1, n2)
                          EXCEPT !.steps = <<<<t0, t1, t2>>>> \o @]

\* the bisection loop was not entered
NoBisection == [returns |-> FALSE, t |-> NaN, left |-> "none", steps |-> <<>>]

\* a solveCurveX whose bisection starts from the middle of [0, 1]
solveCurveXBisectingFromMiddle(solver, x, epsilon) ==
  LET newton == Newton(solver, x, epsilon, 0, x)
      bisection == Bisection(solver, x, epsilon, 0, Scale, Scale \div 2)
  IN  IF newton.accepted
      THEN [returns |-> TRUE, t |-> newton.t, newton |-> newton,
            bisection |-> NoBisection]
      ELSE [returns |-> bisection.returns, t |-> bisection.t,
            newton |-> newton, bisection |-> bisection]

\* solveCurveX(x, epsilon): [returns, t], with the two loops as they ran
solveCurveX(solver, x, epsilon) ==
  LET newton == Newton(solver, x, epsilon, 0, x)
      bisection == Bisection(solver, x, epsilon, 0, Scale, x)
  IN  IF newton.accepted
      THEN [returns |-> TRUE, t |-> newton.t, newton |-> newton,
            bisection |-> NoBisection]
      ELSE [returns |-> bisection.returns, t |-> bisection.t,
            newton |-> newton, bisection |-> bisection]

\* solve(x, epsilon): [returns, y]
solve(solver, x, epsilon) ==
  LET s == solveCurveX(solver, x, epsilon)
  IN  [returns |-> s.returns, y |-> sampleCurveY(solver, s.t)]

(***************************************************************************)
(* The page: elements, animation frames, promises                          *)
(***************************************************************************)
Elements == {"c1", "c2"}

EmptyObject == [k \in {} |-> 0]

Has(obj, key) == key \in DOMAIN obj

\* a destructured parameter with a default value
Default(obj, key, value) == IF Has(obj, key) THEN obj[key] ELSE value

\* what the element keeps of a scroll offset written to it: the browser
\* clamps it to the scrollable range
ClampToRange(v, edge) == IF v < 0 THEN 0 ELSE IF v > edge THEN edge ELSE v

RightEdge(el) == el.scrollWidth - el.clientWidth

BottomEdge(el) == el.scrollHeight - el.clientHeight

SetScrollLeft(el, v) == [el EXCEPT !.scrollLeft = ClampToRange(v, RightEdge(el))]

SetScrollTop(el, v) == [el EXCEPT !.scrollTop = ClampToRange(v, BottomEdge(el))]

ScrollTo(el, x, y) == SetScrollTop(SetScrollLeft(el, x), y)

\* new Promise(executor): the promise is the next of the sequence
NewPromise(st) ==
  [st EXCEPT !.promises = Append(@, [calls |-> 0, interruptedBy |-> "pending"])]

\* a call of promise p's resolve function: only the first call settles it
Resolve(ps, p, value) ==
  [ps EXCEPT ![p] = [calls |-> @.calls + 1,
                     interruptedBy |-> IF @.calls = 0 THEN value.interruptedBy
                                       ELSE @.interruptedBy]]

\* the callback is #scroll of container c's instance; session names the
\* promise whose resolve function the instance holds when it asks
RequestAnimationFrame(st, c) ==
  [st EXCEPT !.raf = @ \cup {[id |-> st.nextRafId, container |-> c,
                               session |-> st.scroller[c].scrollResolve]},
             !.nextRafId = @ + 1]

\* a cancellation that leaves the callback scheduled
CancelAnimationFrameIgnored(st, id) == st

\* a cancellation that removes every scheduled callback of the page
CancelEveryAnimationFrame(st, id) == [st EXCEPT !.raf = {}]

CancelAnimationFrame(st, id) ==
  [st EXCEPT !.raf = {r \in @ : r.id # id}]

\* a dispatch that delivers the event twice
DispatchEventTwice(st, type, detail) ==
  [st EXCEPT !.emitted = Append(Append(@, [type |-> type, promise |-> 0, detail |-> detail]),
                                [type |-> type, promise |-> 0, detail |-> detail])]

DispatchEvent(st, type, detail) ==
  [st EXCEPT !.emitted = Append(@, [type |-> type, promise |-> 0, detail |-> detail])]

(***************************************************************************)
(* SmoothScroller                                                          *)
(***************************************************************************)
DefaultDuration == 600

\* the instance fields as the class body initializes them; 0 stands for the
\* undefined of #scrollRafId and #scrollResolve, FALSE for that of
\* #stopScrollingOnPointerDown, <<>> for that of #cubicBezierSolver
NewScroller ==
  [cubicBezierSolver |-> <<>>,
   scrolling |-> FALSE,
   stopScrollingOnPointerDown |-> FALSE,
   scrollDistanceX |-> NaN,
   scrollDistanceY |-> NaN,
   scrollDuration |-> NaN,
   scrollElapsedTime |-> NaN,
   scrollEndingPointX |-> NaN,
   scrollEndingPointY |-> NaN,
   scrollRafId |-> 0,
   scrollResolve |-> 0,
   scrollStartingPointX |-> NaN,
   scrollStartingPointY |-> NaN,
   scrollStartTime |-> NaN]

\* the event data without the extra data merged in
getScrollEventDataWithoutExtraData(st, c, extraData) ==
  LET sc == st.scroller[c]
  IN  [scrollContainer |-> c,
       startPoint |-> <<sc.scrollStartingPointX, sc.scrollStartingPointY>>,
       endPoint |-> <<sc.scrollEndingPointX, sc.scrollEndingPointY>>,
       distance |->
         MathHypot(MathAbs(Minus(sc.scrollStartingPointX, sc.scrollEndingPointX)),
                   MathAbs(Minus(sc.scrollStartingPointY, sc.scrollEndingPointY))),
       duration |-> sc.scrollDuration,
       elapsedTime |-> sc.scrollElapsedTime,
       interruptedBy |-> "null"]

getScrollEventData(st, c, extraData) ==
  LET sc == st.scroller[c]
  IN  extraData @@
      [scrollContainer |-> c,
       startPoint |-> <<sc.scrollStartingPointX, sc.scrollStartingPointY>>,
       endPoint |-> <<sc.scrollEndingPointX, sc.scrollEndingPointY>>,
       distance |->
         MathHypot(MathAbs(Minus(sc.scrollStartingPointX, sc.scrollEndingPointX)),
                   MathAbs(Minus(sc.scrollStartingPointY, sc.scrollEndingPointY))),
       duration |-> sc.scrollDuration,
       elapsedTime |-> sc.scrollElapsedTime,
       interruptedBy |-> "null"]

\* the reset without this.#scrollResolve = null
ClearedFieldsKeepingResolve(sc) ==
  [sc EXCEPT !.scrolling = FALSE,
             !.scrollDistanceX = NaN,
             !.scrollDistanceY = NaN,
             !.scrollDuration = NaN,
             !.scrollElapsedTime = NaN,
             !.scrollEndingPointX = NaN,
             !.scrollEndingPointY = NaN,
             !.scrollStartingPointX = NaN,
             !.scrollStartingPointY = NaN,
             !.scrollStartTime = NaN]

\* the reset without this.#scrollStartTime = NaN
ClearedFieldsKeepingStartTime(sc) ==
  [sc EXCEPT !.scrolling = FALSE,
             !.scrollDistanceX = NaN,
             !.scrollDistanceY = NaN,
             !.scrollDuration = NaN,
             !.scrollElapsedTime = NaN,
             !.scrollEndingPointX = NaN,
             !.scrollEndingPointY = NaN,
             !.scrollResolve = 0,
             !.scrollStartingPointX = NaN,
             !.scrollStartingPointY = NaN]

\* the fields #stopScroll resets
ClearedFields(sc) ==
  [sc EXCEPT !.scrolling = FALSE,
             !.scrollDistanceX = NaN,
             !.scrollDistanceY = NaN,
             !.scrollDuration = NaN,
             !.scrollElapsedTime = NaN,
             !.scrollEndingPointX = NaN,
             !.scrollEndingPointY = NaN,
             !.scrollResolve = 0,
             !.scrollStartingPointX = NaN,
             !.scrollStartingPointY = NaN,
             !.scrollStartTime = NaN]

\* the stop listeners the page registered on container c with { once: true }:
\* the listener is removed, then called, and it calls
\* SmoothScroller.scroll({ scrollContainer: c, ...onScrollStop })
RECURSIVE scroll(_, _, _)
RunStopListeners(st, c) ==
  IF Has(st.dom[c], "onScrollStop")
  THEN scroll([st EXCEPT !.dom[c] = [k \in DOMAIN @ \ {"onScrollStop"} |-> @[k]]],
              c, st.dom[c].onScrollStop)
  ELSE st

\* #stopScroll(extraData): the event is dispatched, and its listeners run,
\* before the frame of this.#scrollRafId is cancelled and the fields are reset
stopScroll(st, c, extraData) ==
  LET sc == st.scroller[c]
      eventData == getScrollEventData(st, c, extraData)
      resolved ==
        [st EXCEPT !.promises = Resolve(@, sc.scrollResolve, eventData),
                   !.emitted = Append(@, [type |-> "resolve",
                                          promise |-> sc.scrollResolve,
                                          detail |-> eventData])]
      dispatched == DispatchEvent(resolved, "smoothScrollerScrollStop", eventData)
      listened == RunStopListeners(dispatched, c)
      cancelled == CancelAnimationFrame(listened,
                                        listened.scroller[c].scrollRafId)
  IN  [cancelled EXCEPT !.scroller[c] = ClearedFields(@)]

\* the correction without its upper limit
LimitCorrectedBelowOnly(x, edge) == IF x < 0 THEN 0 ELSE x

\* x < leftEdge ? leftEdge : x > rightEdge ? rightEdge : x
LimitCorrected(x, edge) == IF x < 0 THEN 0 ELSE IF x > edge THEN edge ELSE x

\* a keyword easing is looked up in the keyword map, an array is taken as is
ResolveEasing(easing) ==
  IF Has(easing, "keyword") THEN easingKeywordMap[easing.keyword]
  ELSE easing.controlPoints

\* a solver that is constructed once and kept whatever the easing
InstallSolverOnce(sc, easing) ==
  IF Len(sc.cubicBezierSolver) = 0
  THEN [sc EXCEPT !.cubicBezierSolver = <<CubicBezierSolver(easing)>>]
  ELSE sc

\* the solver is constructed when there is none or when its control points
\* differ from the requested ones
InstallSolver(sc, easing) ==
  IF Len(sc.cubicBezierSolver) = 0
  THEN [sc EXCEPT !.cubicBezierSolver = <<CubicBezierSolver(easing)>>]
  ELSE IF ~controlPointsMatchCurrentControlPoints(sc.cubicBezierSolver[1], easing)
  THEN [sc EXCEPT !.cubicBezierSolver = <<CubicBezierSolver(easing)>>]
  ELSE sc

\* a new scroll that does not stop the scroll in flight
InterruptPriorSkipped(st, c) == st

\* if (this.#scrollResolve) this.#stopScroll({ interruptedBy: "New smooth scroll" })
InterruptPrior(st, c) ==
  IF st.scroller[c].scrollResolve # 0
  THEN stopScroll(st, c, [interruptedBy |-> "New smooth scroll"])
  ELSE st

\* new Promise((resolve) => { this.#scrollResolve = resolve; ... })
PromiseWithResolve(st, c) ==
  LET created == NewPromise(st)
  IN  [created EXCEPT !.scroller[c].scrollResolve = Len(created.promises)]

\* a request for a frame whose id is not kept
ScheduleTickWithoutId(st, c) == RequestAnimationFrame(st, c)

\* this.#scrollRafId = requestAnimationFrame(...)
ScheduleTick(st, c) ==
  RequestAnimationFrame([st EXCEPT !.scroller[c].scrollRafId = st.nextRafId], c)

\* a test that takes only a distance of exactly 0 for no movement
BothZero(scrollDistanceX, scrollDistanceY) ==
  scrollDistanceX = 0 /\ scrollDistanceY = 0

\* absoluteScrollDistanceX < 1 && absoluteScrollDistanceY < 1
BelowOnePixel(scrollDistanceX, scrollDistanceY) ==
  Abs(scrollDistanceX) < Px /\ Abs(scrollDistanceY) < Px

\* both distances below one pixel: resolve at once
FinishNoOp(st, c) == stopScroll(PromiseWithResolve(st, c), c, EmptyObject)

\* an instant scroll that resolves without the scrollTo
FinishInstantWithoutJump(st, c, limitCorrectedX, limitCorrectedY) ==
  stopScroll(PromiseWithResolve(st, c), c, EmptyObject)

\* duration <= 0: jump to the target and resolve at once
FinishInstant(st, c, limitCorrectedX, limitCorrectedY) ==
  LET jumped == [st EXCEPT !.dom[c] = ScrollTo(@, limitCorrectedX, limitCorrectedY)]
  IN  stopScroll(PromiseWithResolve(jumped, c), c, EmptyObject)

\* duration > 0: keep the promise pending and ask for the first frame
StartAnimating(st, c) == ScheduleTick(PromiseWithResolve(st, c), c)

\* a validation error: no field is written; the channel tells how the error
\* reaches the caller
Invalid(st, channel, argument) ==
  [st EXCEPT !.call.op = "invalid",
             !.emitted = Append(@, [type |-> channel, promise |-> 0,
                                    detail |-> [argument |-> argument]])]

\* an error thrown out of the call, to its immediate caller
Throws(st, argument) == Invalid(st, "throw", argument)

\* an async method that throws like a plain one
RejectsByThrowing(st, argument) == Invalid(st, "throw", argument)

\* an error thrown inside async #scroll: the promise the call returns is
\* rejected with it
Rejects(st, argument) == Invalid(st, "reject", argument)

\* a duration check without allowedMin
ValidDurationWithoutMin(duration) ==
  ~IsNaN(duration) /\ duration # Infinity

\* validateArgument("duration", duration,
\*                  { allowedMin: 0, allowFiniteNumbersOnly: true })
ValidDuration(duration) ==
  ~IsNaN(duration) /\ duration # Infinity /\ duration >= 0

\* what controlPointValidator lets pass of an array: 4 numbers, x1 and x2
\* within [0, 1]
\* a validation that lets x1 reach 2
ValidControlPointsWiderX1(controlPoints) ==
  /\ Len(controlPoints) = 4
  /\ 0 <= controlPoints[1] /\ controlPoints[1] <= 2 * Scale
  /\ 0 <= controlPoints[3] /\ controlPoints[3] <= Scale

ValidControlPoints(controlPoints) ==
  /\ Len(controlPoints) = 4
  /\ 0 <= controlPoints[1] /\ controlPoints[1] <= Scale
  /\ 0 <= controlPoints[3] /\ controlPoints[3] <= Scale

\* the easing makes lines 130-142 throw: a string that is no keyword becomes
\* undefined, which neither the constructor nor the spread accepts; an array
\* is validated by the constructor, which runs unless a solver is installed
\* whose control points the array's first four values match
EasingThrows(sc, easing) ==
  IF Has(easing, "keyword") THEN easing.keyword \notin EasingKeywords
  ELSE LET controlPoints == easing.controlPoints
           kept == /\ Len(sc.cubicBezierSolver) # 0
                   /\ Len(controlPoints) >= 4
                   /\ controlPointsMatchCurrentControlPoints(
                        sc.cubicBezierSolver[1], controlPoints)
       IN  ~kept /\ ~ValidControlPoints(controlPoints)

\* #scroll from the solver on (lines 130-194), for arguments that pass
\* validation
beginScroll(st, c, args) ==
  LET x == Default(args, "x", st.dom[c].scrollLeft)
      y == Default(args, "y", st.dom[c].scrollTop)
      duration == Default(args, "duration", DefaultDuration)
      easing == ResolveEasing(Default(args, "easing", [keyword |-> "ease"]))
      stopScrollingOnPointerDown ==
        Default(args, "stopScrollingOnPointerDown", TRUE)
      withSolver == [st EXCEPT !.scroller[c] = InstallSolver(@, easing)]
      stopped == InterruptPrior(withSolver, c)
      el == stopped.dom[c]
      limitCorrectedX == LimitCorrected(x, RightEdge(el))
      limitCorrectedY == LimitCorrected(y, BottomEdge(el))
      scrollDistanceX == limitCorrectedX - el.scrollLeft
      scrollDistanceY == limitCorrectedY - el.scrollTop
      begun ==
        [stopped EXCEPT
           !.scroller[c] =
             [@ EXCEPT !.stopScrollingOnPointerDown = stopScrollingOnPointerDown,
                       !.scrollStartingPointX = el.scrollLeft,
                       !.scrollStartingPointY = el.scrollTop,
                       !.scrollDistanceX = scrollDistanceX,
                       !.scrollDistanceY = scrollDistanceY],
           !.call = [@ EXCEPT !.limitCorrectedX = limitCorrectedX,
                              !.limitCorrectedY = limitCorrectedY]]
      timed == [begun EXCEPT !.scroller[c].scrollDuration = duration]
  IN  IF BelowOnePixel(scrollDistanceX, scrollDistanceY)
      THEN FinishNoOp(begun, c)
      ELSE IF duration <= 0
      THEN FinishInstant(timed, c, limitCorrectedX, limitCorrectedY)
      ELSE StartAnimating(timed, c)

\* #scroll called without currentTime (a new scroll)
scrollNew(st, c, args) ==
  IF ~ValidDuration(Default(args, "duration", DefaultDuration))
  THEN Rejects(st, "duration")
  ELSE IF EasingThrows(st.scroller[c], Default(args, "easing", [keyword |-> "ease"]))
  THEN Rejects(st, "controlPoints")
  ELSE beginScroll(st, c, args)

\* Math.min(elapsed / duration, 1), in 1/Scale
\* a ratio that is not capped
ElapsedTimeRatioWithoutMin(elapsed, duration) == (elapsed * Scale) \div duration

\* the quotient is formed only where it is below 1
ElapsedTimeRatio(elapsed, duration) ==
  IF elapsed >= duration THEN Scale ELSE (elapsed * Scale) \div duration

\* 1 / (200 * duration), in 1/Scale
Epsilon(duration) == Scale \div (200 * duration)

\* a next position that counts the distance from the starting point backwards
getNextScrollPositionBackwards(startingPoint, scrollRatio, scrollDistance) ==
  startingPoint - ((scrollRatio * scrollDistance) \div Scale)

\* startingPoint + scrollRatio * scrollDistance, in 1/Px of a pixel
getNextScrollPosition(startingPoint, scrollRatio, scrollDistance) ==
  startingPoint + ((scrollRatio * scrollDistance) \div Scale)

\* !this.#scrollStartTime
StartTimeUnset(sc) == IsNaN(sc.scrollStartTime) \/ sc.scrollStartTime = 0

\* a test every distance passes
MovesAlways(distance) == TRUE

\* if (this.#scrollDistanceX)
Moves(distance) == ~IsNaN(distance) /\ distance # 0

\* a first tick that latches the start time and leaves the scrolling flag
LatchStartWithoutFlag(st, c, currentTime) ==
  IF StartTimeUnset(st.scroller[c])
  THEN LET latched == [st EXCEPT !.scroller[c].scrollStartTime = currentTime]
       IN  DispatchEvent(latched, "smoothScrollerScrollStart",
                         getScrollEventData(latched, c, EmptyObject))
  ELSE st

\* the first tick latches the start time and dispatches the start event
LatchStart(st, c, currentTime) ==
  IF StartTimeUnset(st.scroller[c])
  THEN LET latched == [st EXCEPT !.scroller[c].scrollStartTime = currentTime,
                                 !.scroller[c].scrolling = TRUE]
       IN  DispatchEvent(latched, "smoothScrollerScrollStart",
                         getScrollEventData(latched, c, EmptyObject))
  ELSE st

\* the offsets a tick writes and the ending point it reads back
WriteOffsets(st, c, scrollRatio) ==
  LET sc == st.scroller[c]
      movedX == IF Moves(sc.scrollDistanceX)
                THEN SetScrollLeft(st.dom[c],
                       getNextScrollPosition(sc.scrollStartingPointX, scrollRatio,
                                             sc.scrollDistanceX))
                ELSE st.dom[c]
      movedY == IF Moves(sc.scrollDistanceY)
                THEN SetScrollTop(movedX,
                       getNextScrollPosition(sc.scrollStartingPointY, scrollRatio,
                                             sc.scrollDistanceY))
                ELSE movedX
  IN  [st EXCEPT !.dom[c] = movedY,
                 !.scroller[c].scrollEndingPointX = movedY.scrollLeft,
                 !.scroller[c].scrollEndingPointY = movedY.scrollTop,
                 !.call.written =
                   (IF Moves(sc.scrollDistanceX) THEN {"scrollLeft"} ELSE {})
                   \cup (IF Moves(sc.scrollDistanceY) THEN {"scrollTop"} ELSE {})]

\* a tick that does not ask for the next frame
ContinueOrStopWithoutNextFrame(st, c, elapsedTimeRatio) ==
  IF elapsedTimeRatio < Scale THEN st
  ELSE stopScroll(st, c, EmptyObject)

\* if (elapsedTimeRatio < 1) another frame, else #stopScroll()
ContinueOrStop(st, c, elapsedTimeRatio) ==
  IF elapsedTimeRatio < Scale THEN ScheduleTick(st, c)
  ELSE stopScroll(st, c, EmptyObject)

\* #scroll called by the animation frame with its timestamp
scrollTick(st, c, currentTime) ==
  LET started == LatchStart(st, c, currentTime)
      sampled == DispatchEvent(started, "smoothScrollerScroll",
                               getScrollEventData(started, c, EmptyObject))
      sc == sampled.scroller[c]
      scrollElapsedTime == currentTime - sc.scrollStartTime
      elapsedTimeRatio == ElapsedTimeRatio(scrollElapsedTime, sc.scrollDuration)
      scrollRatio == solve(sc.cubicBezierSolver[1], elapsedTimeRatio,
                           Epsilon(sc.scrollDuration)).y
      timed == [sampled EXCEPT
                  !.scroller[c].scrollElapsedTime = scrollElapsedTime,
                  !.call.scrollElapsedTime = scrollElapsedTime,
                  !.call.elapsedTimeRatio = elapsedTimeRatio]
  IN  ContinueOrStop(WriteOffsets(timed, c, scrollRatio), c, elapsedTimeRatio)

\* the properties the static scroll method destructures from its argument
ScrollParameters ==
  {"x", "y", "duration", "easing", "stopScrollingOnPointerDown"}

\* a lookup that never finds an instance
matchingScrollerNeverFound(st, c) == FALSE

\* this.#scrollerMap.get(scrollContainer), as the condition it is used for
matchingScroller(st, c) == c \in st.scrollerMap

\* createScroller for an element: a new instance, registered for it
createScroller(st, c) ==
  [st EXCEPT !.scrollerMap = @ \cup {c},
             !.scroller[c] = NewScroller,
             !.constructed = Append(@, c)]

\* static scroll(options): the instance of the container is looked up or
\* created and registered, and #scroll gets the destructured properties
scroll(st, c, options) ==
  LET created == IF matchingScroller(st, c) THEN st ELSE createScroller(st, c)
      args == [k \in DOMAIN options \cap ScrollParameters |-> options[k]]
  IN  IF ~matchingScroller(st, c) /\ c \notin Elements
      THEN Throws(st, "scrollContainer")
      ELSE scrollNew(created, c, args)

\* a listener that does nothing
onPointerDownIgnored(st, c) == st

\* the pointerdown listener the constructor adds to the container
\* a listener that reports a stop also when no scroll is in flight
onPointerDownReportingAlways(st, c) ==
  IF c \in st.scrollerMap
     /\ st.scroller[c].scrollResolve # 0
     /\ st.scroller[c].stopScrollingOnPointerDown
  THEN stopScroll(st, c, [interruptedBy |-> "Pointer down on scroll container"])
  ELSE DispatchEvent(st, "smoothScrollerScrollStop",
                     getScrollEventData(st, c, EmptyObject))

onPointerDown(st, c) ==
  IF c \in st.scrollerMap
     /\ st.scroller[c].scrollResolve # 0
     /\ st.scroller[c].stopScrollingOnPointerDown
  THEN stopScroll(st, c, [interruptedBy |-> "Pointer down on scroll container"])
  ELSE st

(***************************************************************************)
(* The state machine                                                       *)
(***************************************************************************)
MaxRequests == 2

\* geometry and inputs, in 1/Px of a pixel
ClientSize == 4
ScrollWidths == {ClientSize, ClientSize + 5}
ScrollHeights == {ClientSize + 6}
XInputs == {-2, 1, 12}
YInputs == {1, 3, 12}
DurationInputs == {0, 300}
EasingInputs == {[keyword |-> "linear"]}
PointerDownInputs ==
  {"stopScrollOnPointerDown" :> FALSE, "stopScrollingOnPointerDown" :> FALSE}
\* the time between two animation frames, in milliseconds
FrameSteps == {300, 400}
\* options that do not pass validation
InvalidInputs ==
  {"duration" :> -1, "duration" :> Infinity,
   "easing" :> [keyword |-> "bounce"],
   "easing" :> [controlPoints |-> <<2 * Scale, 0, Scale, Scale>>]}
\* values of scrollContainer that are no Element
NonElements == {"document"}

Opt(key, values) == {EmptyObject} \cup {key :> v : v \in values}

\* the option objects requests are made with: every combination of the
\* coordinates with the other options left out, and every combination of the
\* other options for one target
ScrollOptions ==
  {x @@ y : x \in Opt("x", XInputs), y \in Opt("y", YInputs)}
  \cup
  {("y" :> 12) @@ d @@ e @@ p :
     d \in Opt("duration", DurationInputs), e \in Opt("easing", EasingInputs),
     p \in {EmptyObject} \cup PointerDownInputs}
  \cup
  {("y" :> 12) @@ i : i \in InvalidInputs}

\* the containers the requests, frames and pointer-downs of Spec act on
Containers == {"c1"}

Element(scrollWidth, scrollHeight) ==
  [scrollLeft |-> 0, scrollTop |-> 0,
   scrollWidth |-> scrollWidth, clientWidth |-> ClientSize,
   scrollHeight |-> scrollHeight, clientHeight |-> ClientSize]

Call(op, c, options, currentTime) ==
  [op |-> op, container |-> c, options |-> options, currentTime |-> currentTime,
   limitCorrectedX |-> NaN, limitCorrectedY |-> NaN,
   scrollElapsedTime |-> NaN, elapsedTimeRatio |-> NaN, written |-> {}]

State ==
  [dom |-> dom, scrollerMap |-> scrollerMap, scroller |-> scroller,
   promises |-> promises, raf |-> raf, nextRafId |-> nextRafId,
   emitted |-> <<>>, call |-> call, constructed |-> constructed]

Becomes(st) ==
  /\ dom' = st.dom
  /\ scrollerMap' = st.scrollerMap
  /\ scroller' = st.scroller
  /\ promises' = st.promises
  /\ raf' = st.raf
  /\ nextRafId' = st.nextRafId
  /\ emitted' = st.emitted
  /\ call' = st.call
  /\ constructed' = st.constructed

\* the page after the module is loaded: no scroller, nothing scheduled
\* the module is loaded: no instance, no promise, no callback
ModuleLoaded ==
  /\ scrollerMap = {}
  /\ constructed = <<>>
  /\ scroller = [e \in Elements |-> NewScroller]
  /\ promises = <<>>
  /\ raf = {}
  /\ nextRafId = 1
  /\ now = -300
  /\ emitted = <<>>
  /\ call = Call("load", "c1", EmptyObject, NaN)

PageLoaded ==
  /\ \E w \in ScrollWidths, h \in ScrollHeights :
       dom = [e \in Elements |-> Element(w, h)]
  /\ ModuleLoaded

\* no solver is used on its own
NoProbe ==
  [stage |-> "none", easing |-> EmptyObject, x |-> NaN, epsilon |-> NaN,
   solver |-> <<>>, result |-> [returns |-> FALSE, y |-> NaN],
   curveX |-> [returns |-> FALSE, t |-> NaN,
               newton |-> [accepted |-> FALSE, t |-> NaN, left |-> "none",
                           steps |-> <<>>],
               bisection |-> NoBisection],
   distance |-> NaN, startingPoint |-> NaN, laterX |-> NaN,
   laterResult |-> [returns |-> FALSE, y |-> NaN], written |-> <<>>]

\* no instance of the earlier class
NoVariant == [constructed |-> FALSE]

Init == PageLoaded /\ probe = NoProbe /\ variant = NoVariant

\* SmoothScroller.scroll({ scrollContainer: c, ...options })
Scroll(c, options) ==
  /\ Len(promises) < MaxRequests
  /\ Becomes(scroll([State EXCEPT !.call = Call("scroll", c, options, NaN)],
                    c, options))
  /\ UNCHANGED <<now, probe, variant>>

\* the browser runs the scheduled callback r in a frame dt after the latest
AnimationFrame(r, dt) ==
  /\ r \in raf
  /\ now' = now + dt
  /\ Becomes(scrollTick([State EXCEPT
                           !.raf = @ \ {r},
                           !.call = Call("frame", r.container, EmptyObject, now + dt)],
                        r.container, now + dt))
  /\ UNCHANGED <<probe, variant>>

\* a pointerdown event on container c
PointerDown(c) ==
  /\ Becomes(onPointerDown([State EXCEPT
                              !.call = Call("pointerdown", c, EmptyObject, NaN)],
                           c))
  /\ UNCHANGED <<now, probe, variant>>

Next ==
  \/ \E c \in Containers, options \in ScrollOptions : Scroll(c, options)
  \/ \E c \in NonElements : Scroll(c, "y" :> 12)
  \/ \E r \in raf, dt \in FrameSteps : AnimationFrame(r, dt)
  \/ \E c \in Containers : PointerDown(c)

Spec == Init /\ [][Next]_vars

\* a frame step, told by what it leaves in `call`: of the steps of Next only
\* AnimationFrame gives `call` such a value, with a timestamp later than any
\* before, and it can be taken exactly when a callback is scheduled
FrameRuns ==
  call' \in {Call("frame", r.container, EmptyObject, now + dt) :
              r \in raf, dt \in FrameSteps}

\* the browser runs the callbacks requestAnimationFrame has scheduled
LiveSpec == Spec /\ WF_call(FrameRuns)

(***************************************************************************)
(* The solver used on its own: new CubicBezierSolver(easing), then         *)
(* solve(x, epsilon)                                                       *)
(***************************************************************************)
\* the magnitude yLimiter puts in the place of a y it does not keep; it
\* stands for Math.floor(Number.MAX_SAFE_INTEGER / 6), beyond every y the
\* inputs hold
YLimit == 100 * Scale

\* yLimiter: Math.abs(y) < limit ? y : limit (the comparison fails for NaN)
yLimiter(y) == IF ~IsNaN(y) /\ MathAbs(y) < YLimit THEN y ELSE YLimit

\* controlPointValidator: a keyword is looked up in the map, an array needs
\* four numbers with both x in [0, 1] and has its two y limited; anything
\* else throws
controlPointValidator(easing) ==
  IF Has(easing, "keyword")
  THEN IF easing.keyword \in EasingKeywords
       THEN [throws |-> FALSE, controlPoints |-> easingKeywordMap[easing.keyword]]
       ELSE [throws |-> TRUE, controlPoints |-> <<>>]
  ELSE IF ValidControlPoints(easing.controlPoints)
       THEN [throws |-> FALSE,
             controlPoints |-> <<easing.controlPoints[1],
                                 yLimiter(easing.controlPoints[2]),
                                 easing.controlPoints[3],
                                 yLimiter(easing.controlPoints[4])>>]
       ELSE [throws |-> TRUE, controlPoints |-> <<>>]

RatioSteps == 40

\* x in [0, 1], both ends included
ProbeRatios == {(i * Scale) \div RatioSteps : i \in 0..RatioSteps}

\* epsilon > 0: the smallest the numbers hold, those of #scroll for the
\* durations 5000, 600 and 300, and a coarse one
ProbeEpsilons == {1, 2, Epsilon(5000), Epsilon(DefaultDuration), Epsilon(300),
                  Scale \div 100}

\* the keyword easings, and linear given as its control points
ProbeCurves ==
  {[keyword |-> k] : k \in EasingKeywords} \cup
  {[controlPoints |-> <<0, 0, Scale, Scale>>]}

\* easings the constructor is given beyond the keywords: an unknown keyword,
\* arrays of a wrong length, x control points outside [0, 1], control points
\* that are not finite, and arrays it accepts
ProbeEasings ==
  {[keyword |-> "bounce"]} \cup
  {[controlPoints |-> p] : p \in
     {<<0, 0, Scale>>, <<0, 0, Scale, Scale, 0>>, <<>>,
      <<2 * Scale, 0, Scale, Scale>>, <<-1, 0, Scale, Scale>>,
      <<0, 0, Scale + 1, Scale>>, <<0, 0, -Scale, Scale>>,
      <<Infinity, 0, Scale, Scale>>, <<0, 0, Infinity, Scale>>,
      <<0, Infinity, Scale, Scale>>, <<0, 0, Scale, -Infinity>>,
      <<0, NaN, Scale, Scale>>,
      <<Scale \div 4, 2 * Scale, Scale \div 2, -Scale>>,
      <<0, -YLimit, Scale, Scale>>, <<0, YLimit, Scale, -YLimit - 1>>,
      <<0, YLimit - 1, Scale, 1 - YLimit>>}}

ProbeInput(easing, x, epsilon) ==
  [NoProbe EXCEPT !.stage = "input", !.easing = easing, !.x = x,
                  !.epsilon = epsilon]

\* how far the ratio of a later tick is from the ratio of the tick before:
\* nothing, a few 1/Scale, and what 1/4 ms, 1 ms and 16.7 ms are when epsilon
\* is 1 / (200 * duration)
ProbeGaps(epsilon) ==
  {0, 1, 2, 5, 20, 50 * epsilon, 200 * epsilon, 3340 * epsilon}

\* scroll distances of an axis, in 1/Px of a pixel
ProbeDistances == {12, 2000, -2000}

\* the easing [1, 0, 0, 1], whose X(t) = 0.5 + 4 (t - 0.5)^3 has derivative 0
\* at t = 0.5, and ratios next to 0.5
ProbeFlatCurve == [controlPoints |-> <<Scale, 0, 0, Scale>>]

ProbeFlatRatios ==
  {Scale \div 2 + d : d \in {-200, -100, 100, 200}}

SolverInit ==
  /\ PageLoaded
  /\ variant = NoVariant
  /\ probe \in {ProbeInput(e, x, eps) :
                  e \in ProbeCurves, x \in ProbeRatios, eps \in ProbeEpsilons}
          \cup {ProbeInput(e, 0, Epsilon(DefaultDuration)) : e \in ProbeEasings}
          \cup {ProbeInput(ProbeFlatCurve, x, eps) :
                  x \in ProbeFlatRatios, eps \in ProbeEpsilons}

\* new CubicBezierSolver(easing)
Construct ==
  /\ probe.stage = "input"
  /\ probe' = LET validated == controlPointValidator(probe.easing)
              IN  IF validated.throws THEN [probe EXCEPT !.stage = "error"]
                  ELSE [probe EXCEPT
                          !.stage = "constructed",
                          !.solver = <<CubicBezierSolver(validated.controlPoints)>>]
  /\ UNCHANGED <<dom, scrollerMap, scroller, promises, raf, nextRafId, now,
                 emitted, call, constructed, variant>>

\* solver.solve(x, epsilon)
Solve ==
  /\ probe.stage = "constructed"
  /\ probe' = [probe EXCEPT !.stage = "solved",
                            !.result = solve(probe.solver[1], probe.x,
                                             probe.epsilon),
                            !.curveX = solveCurveX(probe.solver[1], probe.x,
                                                   probe.epsilon)]
  /\ UNCHANGED <<dom, scrollerMap, scroller, promises, raf, nextRafId, now,
                 emitted, call, constructed, variant>>

\* two ticks of one session on one axis (lines 219-247), for the curves that
\* are probed over all ratios: the position written for the ratio x, then the
\* one written for a ratio that is gap later
SolveLater(gap, distance) ==
  /\ probe.stage = "solved"
  /\ probe.easing \in ProbeCurves
  /\ probe.result.returns
  /\ LET startingPoint == IF distance < 0 THEN -distance ELSE 0
         laterX == Min(probe.x + gap, Scale)
         laterResult == solve(probe.solver[1], laterX, probe.epsilon)
     IN  probe' = [probe EXCEPT
                     !.stage = "solvedLater",
                     !.distance = distance,
                     !.startingPoint = startingPoint,
                     !.laterX = laterX,
                     !.laterResult = laterResult,
                     !.written =
                       <<getNextScrollPosition(startingPoint, probe.result.y,
                                               distance)>> \o
                       (IF laterResult.returns
                        THEN <<getNextScrollPosition(startingPoint,
                                                     laterResult.y, distance)>>
                        ELSE <<>>)]
  /\ UNCHANGED <<dom, scrollerMap, scroller, promises, raf, nextRafId, now,
                 emitted, call, constructed, variant>>

SolverNext ==
  \/ Construct
  \/ Solve
  \/ \E gap \in ProbeGaps(probe.epsilon), distance \in ProbeDistances :
       SolveLater(gap, distance)

SolverSpec == SolverInit /\ [][SolverNext]_vars

(***************************************************************************)
(* Properties                                                              *)
(***************************************************************************)
PromiseIds == 1..Len(promises)

Pending(p) == promises[p].calls = 0

Animating(c) == scroller[c].scrollResolve # 0

Scheduled(c, callbacks) == {r \in callbacks : r.container = c}

\* the values the handler that led to this state resolved promise p with
Resolutions(log, p) ==
  {log[i].detail : i \in {j \in DOMAIN log : log[j].type = "resolve" /\ log[j].promise = p}}

Reports(log, type) == {i \in DOMAIN log : log[i].type = type}

\* the scrollable extent of an axis: content size minus visible size, floored at 0
Extent(contentSize, visibleSize) ==
  IF contentSize - visibleSize < 0 THEN 0 ELSE contentSize - visibleSize

ExtentX(c) == Extent(dom[c].scrollWidth, dom[c].clientWidth)

ExtentY(c) == Extent(dom[c].scrollHeight, dom[c].clientHeight)

\* C1: every promise returned by a scroll request has had its resolve function
\* called at most once, and one not yet resolved is the promise of the
\* session in flight on its container, whose next tick is scheduled: with N
\* requests made and no session in flight, exactly N promises are resolved,
\* each exactly once.
C1_ExactlyOnceResolution ==
  \A p \in PromiseIds :
    /\ promises[p].calls <= 1
    /\ Pending(p) =>
         \E c \in scrollerMap :
           /\ scroller[c].scrollResolve = p
           /\ \E r \in raf : r.container = c /\ r.id = scroller[c].scrollRafId

C1_Witness ==
  /\ Len(promises) = MaxRequests
  /\ promises[1].interruptedBy = "Pointer down on scroll container"
  /\ promises[Len(promises)].interruptedBy = "null"
  /\ call.op = "frame"
  /\ \A p \in PromiseIds : promises[p].calls = 1

\* C2: a container has at most one pending promise and at most one scheduled
\* tick; a scroll request that arrives while a session is animating first
\* resolves that session's promise, with the start point, duration and
\* elapsed time of that session, and cancels its tick.
C2_PriorFinalizedFirst ==
  \A c \in Elements :
    (call'.op = "scroll" /\ call'.container = c /\ Animating(c)) =>
      /\ Len(emitted') >= 2
      /\ emitted'[1].type = "resolve"
      /\ emitted'[1].promise = scroller[c].scrollResolve
      /\ emitted'[1].detail.startPoint =
           <<scroller[c].scrollStartingPointX, scroller[c].scrollStartingPointY>>
      /\ emitted'[1].detail.duration = scroller[c].scrollDuration
      /\ emitted'[1].detail.elapsedTime = scroller[c].scrollElapsedTime
      /\ emitted'[2].type = "smoothScrollerScrollStop"
      /\ promises'[scroller[c].scrollResolve].calls = 1
      /\ scroller[c].scrollRafId \notin {r.id : r \in raf'}

C2_AtMostOneActive ==
  /\ [](\A c \in Elements :
          /\ Cardinality(Scheduled(c, raf)) <= 1
          /\ Cardinality({p \in PromiseIds : Pending(p)}) <= 1)
  /\ [][C2_PriorFinalizedFirst]_vars

C2_Witness ==
  /\ call.op = "scroll"
  /\ Len(emitted) = 2
  /\ emitted[1].detail.interruptedBy = "New smooth scroll"
  /\ emitted[1].detail.elapsedTime > 0
  /\ Animating(call.container)
  /\ Cardinality(raf) = 1

\* C3 as claimed: every promise except that of the last request is resolved
\* with interruptedBy = "new scroll request".
C3_Original ==
  \A p \in PromiseIds :
    p < Len(promises) =>
      promises[p].calls = 1 /\ promises[p].interruptedBy = "new scroll request"

\* C3: every promise except that of the last request is resolved, and a
\* promise still pending when the next request arrives is resolved by that
\* request with interruptedBy = "New smooth scroll".
C3_InterruptedByNewScroll ==
  /\ [](\A p \in PromiseIds : p < Len(promises) => promises[p].calls = 1)
  /\ [][\A c \in Elements :
          (call'.op = "scroll" /\ call'.container = c /\ Animating(c)) =>
            /\ promises'[scroller[c].scrollResolve].calls = 1
            /\ promises'[scroller[c].scrollResolve].interruptedBy = "New smooth scroll"
            /\ Resolutions(emitted', scroller[c].scrollResolve) # {}
            /\ \A d \in Resolutions(emitted', scroller[c].scrollResolve) :
                 d.interruptedBy = "New smooth scroll"]_vars

C3_Witness ==
  /\ Len(promises) = 2
  /\ promises[1].interruptedBy = "New smooth scroll"
  /\ call.op = "scroll"
  /\ Pending(2)

\* C4: the target a scroll request computes is, on each axis, the point of
\* [0, extent] nearest to the requested coordinate (the current offset when
\* the coordinate is left out), so it lies within [0, extent]; the distance
\* of the session it starts is that target minus the start offset.
C4_NearestInRange(target, requested, extent) ==
  /\ 0 <= target /\ target <= extent
  /\ \A v \in 0..extent : Abs(target - requested) <= Abs(v - requested)

C4_TargetWithinBounds ==
  call.op = "scroll" =>
    LET c == call.container
        sc == scroller[c]
    IN  /\ Has(call.options, "x") =>
             C4_NearestInRange(call.limitCorrectedX, call.options.x, ExtentX(c))
        /\ Has(call.options, "y") =>
             C4_NearestInRange(call.limitCorrectedY, call.options.y, ExtentY(c))
        /\ 0 <= call.limitCorrectedX /\ call.limitCorrectedX <= ExtentX(c)
        /\ 0 <= call.limitCorrectedY /\ call.limitCorrectedY <= ExtentY(c)
        /\ Animating(c) =>
             /\ sc.scrollDistanceX = call.limitCorrectedX - sc.scrollStartingPointX
             /\ sc.scrollDistanceY = call.limitCorrectedY - sc.scrollStartingPointY
             /\ ~Has(call.options, "x") => sc.scrollDistanceX = 0
             /\ ~Has(call.options, "y") => sc.scrollDistanceY = 0

C4_Witness ==
  /\ call.op = "scroll"
  /\ Has(call.options, "x") /\ call.options.x > ExtentX(call.container)
  /\ Has(call.options, "y") /\ call.options.y < ExtentY(call.container)
  /\ call.limitCorrectedX = ExtentX(call.container)
  /\ ExtentX(call.container) > 0
  /\ scroller[call.container].scrollStartingPointX > 0
  /\ Animating(call.container)

\* a scroll request whose limit-corrected target is less than one pixel from
\* the current offset on both axes
C5_NoOpRequest(c) ==
  /\ call'.op = "scroll" /\ call'.container = c
  /\ Abs(call'.limitCorrectedX - dom[c].scrollLeft) < Px
  /\ Abs(call'.limitCorrectedY - dom[c].scrollTop) < Px

C5_NoOpOutcome(c, elapsedTimes) ==
  /\ Len(promises') = Len(promises) + 1
  /\ promises'[Len(promises')] = [calls |-> 1, interruptedBy |-> "null"]
  /\ Resolutions(emitted', Len(promises')) # {}
  /\ \A d \in Resolutions(emitted', Len(promises')) : d.elapsedTime \in elapsedTimes
  /\ Scheduled(c, raf') = {}
  /\ dom' = dom
  /\ Reports(emitted', "smoothScrollerScroll") = {}

\* C5 as claimed: a request whose clamped distance is below 1 on both axes
\* resolves immediately with elapsedTime = 0, schedules no tick, writes no
\* offset and produces no frame-sample report.
C5_Original ==
  [][\A c \in Elements : C5_NoOpRequest(c) => C5_NoOpOutcome(c, {0})]_vars

\* C5: a request whose clamped distance is below 1 on both axes resolves
\* immediately with elapsedTime unset (NaN), schedules no tick, writes no
\* offset and produces no frame-sample report.
C5_NoOpResolvesAtOnce ==
  [][\A c \in Elements : C5_NoOpRequest(c) => C5_NoOpOutcome(c, {NaN})]_vars

C5_Witness ==
  /\ call.op = "scroll"
  /\ Has(call.options, "y")
  /\ call.limitCorrectedY # dom[call.container].scrollTop
  /\ \E d \in Resolutions(emitted, Len(promises)) : d.duration = NaN
  /\ promises[Len(promises)].calls = 1

\* C6: a request with duration 0 and a distance of at least one pixel on some
\* axis leaves the container at the limit-corrected target when the request
\* returns, with its promise resolved, no tick scheduled and elapsedTime
\* unset or zero.
C6_InstantScroll ==
  [][\A c \in Elements :
       ( /\ call'.op = "scroll" /\ call'.container = c
         /\ Has(call'.options, "duration") /\ call'.options.duration = 0
         /\ \/ Abs(call'.limitCorrectedX - dom[c].scrollLeft) >= Px
            \/ Abs(call'.limitCorrectedY - dom[c].scrollTop) >= Px )
       => /\ dom'[c].scrollLeft = call'.limitCorrectedX
          /\ dom'[c].scrollTop = call'.limitCorrectedY
          /\ Len(promises') = Len(promises) + 1
          /\ promises'[Len(promises')].calls = 1
          /\ Resolutions(emitted', Len(promises')) # {}
          /\ \A d \in Resolutions(emitted', Len(promises')) :
               d.elapsedTime \in {NaN, 0}
          /\ Scheduled(c, raf') = {}]_vars

C6_Witness ==
  /\ call.op = "scroll"
  /\ Has(call.options, "duration") /\ call.options.duration = 0
  /\ dom[call.container].scrollTop = ExtentY(call.container)
  /\ \E d \in Resolutions(emitted, Len(promises)) : d.duration = 0
  /\ promises[Len(promises)].calls = 1
  /\ raf = {}

\* C7: a request that leaves the pointer-down option out has it true; a
\* pointer-down on a container whose session is animating with the option
\* true resolves that session's promise in the same step with interruptedBy =
\* "Pointer down on scroll container", writes no offset and leaves no tick
\* scheduled; and a container without a session has no tick scheduled, so no
\* later tick writes.
C7_PointerDownStops ==
  /\ [](\A c \in Elements :
          /\ ( /\ call.op = "scroll" /\ call.container = c /\ Animating(c)
               /\ ~Has(call.options, "stopScrollingOnPointerDown") )
             => scroller[c].stopScrollingOnPointerDown
          /\ ~Animating(c) => Scheduled(c, raf) = {})
  /\ [][\A c \in Elements :
          ( /\ call'.op = "pointerdown" /\ call'.container = c
            /\ Animating(c) /\ scroller[c].stopScrollingOnPointerDown )
          => /\ promises'[scroller[c].scrollResolve] =
                  [calls |-> 1, interruptedBy |-> "Pointer down on scroll container"]
             /\ Resolutions(emitted', scroller[c].scrollResolve) # {}
             /\ dom' = dom
             /\ scroller'[c].scrollResolve = 0
             /\ Scheduled(c, raf') = {}]_vars

C7_Witness ==
  /\ call.op = "pointerdown"
  /\ Len(emitted) = 2
  /\ emitted[1].detail.interruptedBy = "Pointer down on scroll container"
  /\ emitted[1].detail.elapsedTime > 0
  /\ dom[call.container].scrollTop > 0
  /\ dom[call.container].scrollTop < ExtentY(call.container)
  /\ raf = {}

\* C8 as claimed: after a request made through the static scroll method with
\* the documented option stopScrollOnPointerDown set to false, a pointer-down
\* on the container during that scroll does not stop it: the promise stays
\* pending, no stop report is emitted and the tick stays scheduled.
C8_DocumentedOptionHonoured ==
  [][\A c \in Elements :
       ( /\ call.op = "scroll" /\ call.container = c
         /\ Has(call.options, "stopScrollOnPointerDown")
         /\ call.options.stopScrollOnPointerDown = FALSE
         /\ Animating(c)
         /\ call'.op = "pointerdown" /\ call'.container = c )
       => /\ promises' = promises
          /\ Reports(emitted', "smoothScrollerScrollStop") = {}
          /\ raf' = raf]_vars

\* C9: a tick of an animating session either leaves it animating with an
\* elapsed time below the duration, or completes it: then the elapsed time is
\* at least the duration, the offset of every moved axis is the start plus
\* the distance (the limit-corrected target, by C4), and the promise is
\* resolved with interruptedBy = null.
C9_NaturalCompletion ==
  [][\A c \in Elements :
       (call'.op = "frame" /\ call'.container = c /\ Animating(c)) =>
         LET sc == scroller[c]
             p == sc.scrollResolve
         IN  IF promises'[p].calls = 1
             THEN /\ promises'[p].interruptedBy = "null"
                  /\ Resolutions(emitted', p) # {}
                  /\ \A d \in Resolutions(emitted', p) :
                       d.interruptedBy = "null" /\ d.elapsedTime >= d.duration
                  /\ sc.scrollDistanceX # 0 =>
                       dom'[c].scrollLeft = sc.scrollStartingPointX + sc.scrollDistanceX
                  /\ sc.scrollDistanceY # 0 =>
                       dom'[c].scrollTop = sc.scrollStartingPointY + sc.scrollDistanceY
             ELSE /\ scroller'[c].scrollResolve = p
                  /\ scroller'[c].scrollElapsedTime < scroller'[c].scrollDuration]_vars

C9_Witness ==
  /\ call.op = "frame"
  /\ Len(emitted) >= 2
  /\ \E d \in Resolutions(emitted, 1) :
       /\ d.interruptedBy = "null"
       /\ d.elapsedTime > d.duration
       /\ d.startPoint = <<0, 0>>
       /\ d.endPoint = <<ExtentX(call.container), ExtentY(call.container)>>
  /\ ExtentX(call.container) > 0

C11_InvalidRequest(c) ==
  /\ call'.op \in {"scroll", "invalid"} /\ call'.container = c
  /\ \/ /\ Has(call'.options, "duration")
        /\ call'.options.duration < 0 \/ call'.options.duration = Infinity
     \/ /\ Has(call'.options, "easing")
        /\ IF Has(call'.options.easing, "keyword")
           THEN call'.options.easing.keyword \notin EasingKeywords
           ELSE call'.options.easing.controlPoints[1] \notin 0..Scale

\* the request is rejected and leaves the session as it was
C11_SessionUntouched ==
  /\ call'.op = "invalid"
  /\ Len(emitted') = 1 /\ emitted'[1].type \in {"reject", "throw"}
  /\ dom' = dom /\ scroller' = scroller /\ promises' = promises
  /\ raf' = raf /\ nextRafId' = nextRafId

\* C11 as claimed: a request rejected for an invalid duration or easing
\* changes no state at all.
C11_Original ==
  [][\A c \in Elements :
       C11_InvalidRequest(c) =>
         C11_SessionUntouched /\ scrollerMap' = scrollerMap]_vars

\* C11: a request with an invalid duration or easing is rejected and changes
\* no state of the session: the pending promise, the scheduled tick, the
\* start, distance, duration, solver and offsets stay as they were and
\* nothing is reported; the only change is that the first request for a
\* container has registered the container's scroller.
C11_RejectedLeavesSession ==
  [][\A c \in Elements :
       C11_InvalidRequest(c) =>
         C11_SessionUntouched /\ scrollerMap' = scrollerMap \cup {c}]_vars

C11_Witness ==
  /\ call.op = "invalid"
  /\ Has(call.options, "easing")
  /\ Has(call.options.easing, "keyword")
  /\ Animating(call.container)
  /\ scroller[call.container].scrollElapsedTime > 0
  /\ Scheduled(call.container, raf) # {}

\* C12 as claimed: every validation error of a scroll request is raised
\* synchronously to the caller, never through the returned promise.
C12_Original ==
  [][call'.op = "invalid" =>
       \A i \in 1..Len(emitted') : emitted'[i].type = "throw"]_vars

\* C12: a validation error of the duration or the easing is delivered as the
\* rejection of the promise the request returns; only the error of a
\* scrollContainer that is no Element is thrown to the caller. The promise of
\* an accepted request settles only by being resolved with a result record.
C12_ErrorsRejectThePromise ==
  /\ [][call'.op = "invalid" =>
          /\ Len(emitted') = 1
          /\ promises' = promises
          /\ IF call'.container \in Elements
             THEN /\ emitted'[1].type = "reject"
                  /\ emitted'[1].detail.argument \in {"duration", "controlPoints"}
             ELSE /\ emitted'[1].type = "throw"
                  /\ emitted'[1].detail.argument = "scrollContainer"]_vars
  /\ [](\A i \in 1..Len(emitted) :
          emitted[i].type = "resolve" =>
            DOMAIN emitted[i].detail =
              {"scrollContainer", "startPoint", "endPoint", "distance",
               "duration", "elapsedTime", "interruptedBy"})

C12_Witness ==
  /\ call.op = "invalid"
  /\ call.container \in Elements
  /\ Has(call.options, "duration") /\ call.options.duration = -1
  /\ emitted = <<[type |-> "reject", promise |-> 0,
                  detail |-> [argument |-> "duration"]]>>
  /\ Len(promises) = 1 /\ Pending(1)

\* the positions in the log of the reports of a type
Positions(log, type) == {i \in 1..Len(log) : log[i].type = type}

\* C13: a tick runs only for a session that is animating and emits exactly
\* one frame-sample report, before the session-ended report when the tick
\* ends the session; no other step emits a frame-sample report, and a
\* container whose session has ended has no tick scheduled, so no
\* frame-sample report follows the session-ended report.
C13_FrameSamplesPerTick ==
  /\ [](\A c \in Elements : ~Animating(c) => Scheduled(c, raf) = {})
  /\ [][IF call'.op = "frame"
        THEN /\ Animating(call'.container)
             /\ Cardinality(Positions(emitted', "smoothScrollerScroll")) = 1
             /\ Cardinality(Positions(emitted', "smoothScrollerScrollStop")) <= 1
             /\ \A i \in Positions(emitted', "smoothScrollerScroll"),
                   j \in Positions(emitted', "smoothScrollerScrollStop") : i < j
             /\ \A i \in Positions(emitted', "smoothScrollerScroll") :
                  emitted'[i].detail.startPoint =
                    <<scroller[call'.container].scrollStartingPointX,
                      scroller[call'.container].scrollStartingPointY>>
        ELSE Positions(emitted', "smoothScrollerScroll") = {}]_vars

C13_Witness ==
  /\ call.op = "frame"
  /\ Len(emitted) = 3
  /\ emitted[1].type = "smoothScrollerScroll"
  /\ emitted[2].type = "resolve"
  /\ emitted[3].type = "smoothScrollerScrollStop"
  /\ emitted[1].detail.elapsedTime >= 0

\* the promises a step resolves
C14_ResolvedByStep ==
  {p \in 1..Len(promises') :
     promises'[p].calls >= 1 /\ (p > Len(promises) \/ promises[p].calls = 0)}

\* C14: every step emits one session-ended report for each promise it
\* resolves, right after the resolution and with the same record, and no
\* other session-ended report; as a promise is resolved at most once, each
\* accepted request has exactly one session-ended report once it has ended,
\* on every path (no-op, instant, completion, new request, pointer-down).
C14_OneStopReportPerSession ==
  /\ [](\A p \in PromiseIds : promises[p].calls <= 1)
  /\ [][/\ Cardinality(Positions(emitted', "smoothScrollerScrollStop")) =
             Cardinality(C14_ResolvedByStep)
        /\ {emitted'[i].promise : i \in Positions(emitted', "resolve")} =
             C14_ResolvedByStep
        /\ \A i \in Positions(emitted', "resolve") :
             /\ i < Len(emitted')
             /\ emitted'[i + 1].type = "smoothScrollerScrollStop"
             /\ emitted'[i + 1].detail = emitted'[i].detail
        /\ \A j \in Positions(emitted', "smoothScrollerScrollStop") :
             j > 1 /\ emitted'[j - 1].type = "resolve"]_vars

C14_Witness ==
  /\ call.op = "scroll"
  /\ Len(emitted) = 4
  /\ emitted[1].detail.interruptedBy = "New smooth scroll"
  /\ emitted[2].type = "smoothScrollerScrollStop"
  /\ emitted[3].detail.interruptedBy = "null"
  /\ emitted[4].type = "smoothScrollerScrollStop"
  /\ \A p \in PromiseIds : promises[p].calls = 1

\* the offset of container c when the session of promise p is finalized in
\* the step: a request finalizes the session in flight before it writes
\* anything, and its own session after its jump
C15_OffsetAtFinalization(c, p) ==
  IF call'.op = "scroll" /\ p <= Len(promises)
  THEN <<dom[c].scrollLeft, dom[c].scrollTop>>
  ELSE <<dom'[c].scrollLeft, dom'[c].scrollTop>>

\* the offset of container c when the request of promise p was made
C15_OffsetAtRequest(c, p) ==
  IF p > Len(promises)
  THEN <<dom[c].scrollLeft, dom[c].scrollTop>>
  ELSE <<scroller[c].scrollStartingPointX, scroller[c].scrollStartingPointY>>

\* C15 as claimed: on every finalization path the result record has
\* startPoint equal to the container offset at request time, endPoint equal
\* to the container offset at finalization and distance equal to the
\* Euclidean distance between the two.
C15_ResultGeometry ==
  [][\A i \in Positions(emitted', "resolve") :
       LET d == emitted'[i].detail
           c == d.scrollContainer
       IN  /\ d.startPoint = C15_OffsetAtRequest(c, emitted'[i].promise)
           /\ d.endPoint = C15_OffsetAtFinalization(c, emitted'[i].promise)
           /\ d.distance = MathHypot(Abs(d.startPoint[1] - d.endPoint[1]),
                                     Abs(d.startPoint[2] - d.endPoint[2]))]_vars

\* the elapsed time the tick of the step computes for container c: it is in
\* the session's field after the tick, or in the session-ended report when
\* the tick ends the session
C16_ElapsedTimeOfTick(c) ==
  IF scroller'[c].scrollResolve # 0 THEN scroller'[c].scrollElapsedTime
  ELSE emitted'[Len(emitted')].detail.elapsedTime

\* C16 as claimed: the frame-sample report of a tick carries the offsets that
\* tick writes, the elapsed time that tick computes and the session's
\* duration.
C16_SampleOfSameTick ==
  [][call'.op = "frame" =>
       \A i \in Positions(emitted', "smoothScrollerScroll") :
         LET d == emitted'[i].detail
             c == call'.container
         IN  /\ d.endPoint = <<dom'[c].scrollLeft, dom'[c].scrollTop>>
             /\ d.elapsedTime = C16_ElapsedTimeOfTick(c)
             /\ d.duration = scroller[c].scrollDuration]_vars

\* C17 as claimed: the first tick of a session, whatever its timestamp >= 0,
\* latches the start timestamp and reports the start once; every later tick
\* reports no start, keeps the start timestamp and measures the elapsed time
\* from it.
C17_StartLatchedOnce ==
  [][call'.op = "frame" =>
       LET c == call'.container
           starts == Positions(emitted', "smoothScrollerScrollStart")
       IN  IF IsNaN(scroller[c].scrollStartTime)
           THEN /\ Cardinality(starts) = 1
                /\ C16_ElapsedTimeOfTick(c) = 0
                /\ scroller'[c].scrollResolve # 0 =>
                     scroller'[c].scrollStartTime = call'.currentTime
           ELSE /\ starts = {}
                /\ C16_ElapsedTimeOfTick(c) =
                     call'.currentTime - scroller[c].scrollStartTime
                /\ scroller'[c].scrollResolve # 0 =>
                     scroller'[c].scrollStartTime = scroller[c].scrollStartTime]_vars

\* the fields of a tick are as the class body initializes them
C18_TickFieldsCleared(sc) ==
  /\ ~sc.scrolling
  /\ IsNaN(sc.scrollStartTime)
  /\ IsNaN(sc.scrollElapsedTime)
  /\ IsNaN(sc.scrollEndingPointX) /\ IsNaN(sc.scrollEndingPointY)

\* C18: a container without a session in flight has every active-animation
\* field cleared (start, ending point, distance, duration, start timestamp,
\* elapsed time, promise handle, scrolling flag) and no tick scheduled; and a
\* request that starts an animation, whether or not it interrupts a session,
\* starts from cleared tick fields with exactly one tick scheduled, its own.
C18_FinalizationClears ==
  /\ [](\A c \in Elements :
          ~Animating(c) =>
            /\ C18_TickFieldsCleared(scroller[c])
            /\ IsNaN(scroller[c].scrollStartingPointX)
            /\ IsNaN(scroller[c].scrollStartingPointY)
            /\ IsNaN(scroller[c].scrollDistanceX)
            /\ IsNaN(scroller[c].scrollDistanceY)
            /\ IsNaN(scroller[c].scrollDuration)
            /\ Scheduled(c, raf) = {})
  /\ [][\A c \in Elements :
          (call'.op = "scroll" /\ call'.container = c
           /\ scroller'[c].scrollResolve # 0) =>
            /\ C18_TickFieldsCleared(scroller'[c])
            /\ scroller'[c].scrollResolve = Len(promises')
            /\ Scheduled(c, raf') = {[id |-> nextRafId, container |-> c,
                                       session |-> Len(promises')]}
            /\ scroller'[c].scrollRafId = nextRafId]_vars

C18_Witness ==
  /\ call.op = "scroll"
  /\ Len(promises) = 2
  /\ promises[1] = [calls |-> 1, interruptedBy |-> "null"]
  /\ Pending(2)
  /\ nextRafId >= 4
  /\ C18_TickFieldsCleared(scroller[call.container])
  /\ scroller[call.container].scrollStartingPointY > 0

\* C19 as claimed: the result of an interrupted scroll has an elapsedTime that
\* is a number strictly less than its duration, wherever the interruption
\* arrives, before the first tick included.
C19_InterruptedElapsedBelowDuration ==
  \A i \in Positions(emitted, "resolve") :
    emitted[i].detail.interruptedBy # "null" =>
      /\ ~IsNaN(emitted[i].detail.elapsedTime)
      /\ ~IsNaN(emitted[i].detail.duration)
      /\ emitted[i].detail.elapsedTime < emitted[i].detail.duration

\* C20 as claimed: every event dispatched on the container has one of the
\* documented names smoothScrollerStart, smoothScrollerScroll and
\* smoothScrollerStop, so that a listener registered under them receives it.
C20_DocumentedEventNames ==
  \A i \in 1..Len(emitted) :
    emitted[i].type \notin {"resolve", "reject", "throw"} =>
      emitted[i].type \in
        {"smoothScrollerStart", "smoothScrollerScroll", "smoothScrollerStop"}

(***************************************************************************)
(* Properties of the solver on its own                                     *)
(***************************************************************************)
Solved == probe.stage = "solved"

IsKeywordEasing(easing) == Has(easing, "keyword") /\ easing.keyword \in EasingKeywords

IsLinear(easing) ==
  \/ easing = [keyword |-> "linear"]
  \/ easing = [controlPoints |-> <<0, 0, Scale, Scale>>]

\* C21: for each of the five keyword easings and every epsilon > 0,
\* solve(0, epsilon) returns 0 and solve(1, epsilon) returns 1
C21_EndpointsExact ==
  (Solved /\ IsKeywordEasing(probe.easing) /\ probe.x \in {0, Scale})
    => /\ probe.result.returns
       /\ probe.result.y = probe.x

C21_Witness ==
  /\ Solved
  /\ probe.easing = [keyword |-> "ease-in-out"]
  /\ probe.x = Scale
  /\ probe.epsilon = 1
  /\ probe.result = [returns |-> TRUE, y |-> Scale]

\* C22: for the linear easing [0, 0, 1, 1], every ratio r in [0, 1] and every
\* epsilon > 0, the value solve(r, epsilon) returns differs from r by less
\* than epsilon; it returns for every epsilon above the resolution of the
\* numbers
C22_LinearWithinEpsilon ==
  (Solved /\ IsLinear(probe.easing))
    => /\ probe.result.returns => Abs(probe.result.y - probe.x) < probe.epsilon
       /\ probe.epsilon > 1 => probe.result.returns

C22_Witness ==
  /\ Solved
  /\ probe.easing = [controlPoints |-> <<0, 0, Scale, Scale>>]
  /\ probe.x = Scale \div 4
  /\ probe.epsilon = 2
  /\ probe.result.returns
  /\ probe.result.y # probe.x
  /\ Abs(probe.result.y - probe.x) < 2

SolvedLater == probe.stage = "solvedLater" /\ probe.laterResult.returns

\* how far a written position is from the target of the axis
ToTarget(position) == Abs(probe.startingPoint + probe.distance - position)

\* the later tick leaves the axis at least as near to its target
NotAway == ToTarget(probe.written[2]) <= ToTarget(probe.written[1])

\* C23 as stated: for a keyword easing and one duration, a tick of a later
\* or equal timestamp never writes an offset farther from the target
C23_Original ==
  (SolvedLater /\ IsKeywordEasing(probe.easing)) => NotAway

\* C23: for a keyword easing and one duration, a later tick has a ratio that
\* is not smaller, and it writes an offset that is not farther from the target
\* when its timestamp is the same or at least one millisecond later (a ratio
\* 200 epsilon larger); ticks closer together than the solver's tolerance
\* can write an offset that moves back
C23_MonotonicTowardTarget ==
  (SolvedLater /\ IsKeywordEasing(probe.easing))
    => /\ probe.laterX >= probe.x
       /\ (probe.laterX = probe.x
           \/ probe.laterX - probe.x >= 200 * probe.epsilon
           \/ probe.laterX = Scale)
            => /\ probe.laterResult.y >= probe.result.y
               /\ NotAway

\* the elapsed time a session keeps never decreases from one tick to the next
C23_ElapsedNonDecreasing ==
  [][LET c == call'.container
     IN  (/\ call'.op = "frame"
          /\ scroller[c].scrollResolve # 0
          /\ scroller'[c].scrollResolve = scroller[c].scrollResolve
          /\ ~IsNaN(scroller[c].scrollElapsedTime))
           => scroller'[c].scrollElapsedTime >= scroller[c].scrollElapsedTime]_vars

C23_Witness ==
  /\ SolvedLater
  /\ probe.easing = [keyword |-> "ease"]
  /\ probe.distance = -2000
  /\ probe.laterX - probe.x = 200 * probe.epsilon
  /\ probe.laterX < Scale
  /\ ToTarget(probe.written[2]) < ToTarget(probe.written[1])

Constructing == probe.stage \in {"error", "constructed", "solved", "solvedLater"}

IsFinite(number) == ~IsNaN(number) /\ MathAbs(number) # Infinity

\* the easing is a keyword the map does not hold, an array that does not have
\* four values, or an array whose p1x or p2x is outside [0, 1]
C24_Refused(easing) ==
  IF Has(easing, "keyword") THEN easing.keyword \notin EasingKeywords
  ELSE \/ Len(easing.controlPoints) # 4
       \/ easing.controlPoints[1] < 0 \/ easing.controlPoints[1] > Scale
       \/ easing.controlPoints[3] < 0 \/ easing.controlPoints[3] > Scale

RegisteredInstance(c) ==
  CHOOSE i \in DOMAIN constructed :
    /\ constructed[i] = c
    /\ \A j \in DOMAIN constructed : constructed[j] = c => j <= i

\* static getScroller(scrollContainer): <<instance>>, or <<>> for undefined
getScroller(c) == IF c \in scrollerMap THEN <<RegisteredInstance(c)>> ELSE <<>>

\* static getAllScrollers(): the values of the map
getAllScrollers == {RegisteredInstance(c) : c \in scrollerMap}

C25_OnePerContainer ==
  /\ \A i, j \in DOMAIN constructed : constructed[i] = constructed[j] => i = j
  /\ getAllScrollers = DOMAIN constructed
  /\ \A c \in Elements \cup NonElements :
       IF \E i \in DOMAIN constructed : constructed[i] = c
       THEN Len(getScroller(c)) = 1 /\ constructed[getScroller(c)[1]] = c
       ELSE getScroller(c) = <<>>

\* C25: the registry holds at most one instance per container: the first
\* scroll on an element constructs and registers its instance, every later
\* scroll on it constructs none and finds the same instance, getScroller gives
\* that instance or undefined when none was constructed, and getAllScrollers
\* gives exactly the instances constructed
C25_RegistryOnePerContainer ==
  /\ []C25_OnePerContainer
  /\ [][\A c \in Elements \cup NonElements : call'.container = c =>
            IF call'.op \in {"scroll", "invalid"}
            THEN IF c \in scrollerMap
                 THEN constructed' = constructed /\ getScroller(c)' = getScroller(c)
                 ELSE IF c \in Elements
                 THEN /\ constructed' = Append(constructed, c)
                      /\ getScroller(c)' = <<Len(constructed')>>
                 ELSE constructed' = constructed /\ scrollerMap' = scrollerMap
            ELSE constructed' = constructed /\ scrollerMap' = scrollerMap]_vars

C25_Witness ==
  /\ constructed = <<"c1">>
  /\ getScroller("c1") = <<1>>
  /\ getScroller("c2") = <<>>
  /\ call.op = "scroll"
  /\ Len(promises) = 2

\* C26: on every tick the ratio handed to the solver is
\* min(elapsed / duration, 1), where elapsed is the tick's timestamp minus the
\* latched start, and lies in [0, 1]; the elapsed time may exceed the duration
C26_RatioHandedToSolver ==
  [][call'.op = "frame" =>
       LET c == call'.container
           start == IF StartTimeUnset(scroller[c]) THEN call'.currentTime
                    ELSE scroller[c].scrollStartTime
           elapsed == call'.currentTime - start
           ratio == (elapsed * Scale) \div scroller[c].scrollDuration
       IN  /\ elapsed >= 0
           /\ call'.scrollElapsedTime = elapsed
           /\ call'.elapsedTimeRatio = IF ratio < Scale THEN ratio ELSE Scale
           /\ 0 <= call'.elapsedTimeRatio
           /\ call'.elapsedTimeRatio <= Scale]_vars

C26_Witness ==
  /\ call.op = "frame"
  /\ call.scrollElapsedTime = 400
  /\ call.elapsedTimeRatio = Scale
  /\ \E p \in PromiseIds : promises[p].calls = 1

\* every scheduled tick is the one the active session of its container asked
\* for last, and a container has at most one
C27_ScheduledByActiveSession ==
  \A r \in raf :
    /\ scroller[r.container].scrollResolve # 0
    /\ r.session = scroller[r.container].scrollResolve
    /\ r.id = scroller[r.container].scrollRafId
    /\ Pending(r.session)
    /\ \A q \in raf : q.container = r.container => q = r

\* C27: only a tick scheduled by the active session runs and writes the
\* offset: a tick that runs was asked for by the session that is active when
\* it runs, a step that finalizes a session (completion, a new request, a
\* pointer-down) leaves none of its ticks scheduled, and the offsets change
\* only in such a tick or in a scroll request
C27_OnlyActiveSessionTicks ==
  /\ []C27_ScheduledByActiveSession
  /\ [][/\ call'.op = "frame" =>
             \E r \in raf \ raf' :
               /\ raf \ raf' = {r}
               /\ r.container = call'.container
               /\ r.session = scroller[r.container].scrollResolve
               /\ Pending(r.session)
        /\ \A p \in PromiseIds :
             (Pending(p) /\ ~Pending(p)') => \A r \in raf' : r.session # p
        /\ dom' # dom => call'.op \in {"frame", "scroll"}]_vars

C27_Witness ==
  /\ call.op = "scroll"
  /\ Reports(emitted, "smoothScrollerScrollStop") # {}
  /\ Len(promises) = 2
  /\ ~Pending(1)
  /\ raf = {[id |-> 2, container |-> "c1", session |-> 2]}

\* C28: a tick writes an axis exactly when the distance of that axis is not
\* zero; an axis with zero distance, such as one the request left out, is
\* written by no tick and keeps its offset
C28_ZeroDistanceAxisUntouched ==
  [][call'.op = "frame" =>
       LET c == call'.container
       IN  /\ "scrollLeft" \in call'.written <=> scroller[c].scrollDistanceX # 0
           /\ "scrollTop" \in call'.written <=> scroller[c].scrollDistanceY # 0
           /\ scroller[c].scrollDistanceX = 0 =>
                dom'[c].scrollLeft = dom[c].scrollLeft
           /\ scroller[c].scrollDistanceY = 0 =>
                dom'[c].scrollTop = dom[c].scrollTop
           /\ ~IsNaN(scroller[c].scrollDistanceX)
           /\ ~IsNaN(scroller[c].scrollDistanceY)]_vars

C28_Witness ==
  /\ call.op = "frame"
  /\ call.written = {"scrollTop"}
  /\ dom["c1"].scrollTop > 0
  /\ dom["c1"].scrollLeft = 0
  /\ scroller["c1"].scrollDistanceX = 0

C30_PointerDownWhenIdle ==
  [][\A c \in Elements :
       (call'.op = "pointerdown" /\ call'.container = c /\ ~Animating(c)) =>
         /\ emitted' = <<>>
         /\ UNCHANGED <<dom, scrollerMap, scroller, promises, raf, nextRafId,
                        constructed>>]_vars

\* a pointer-down that did nothing, after one that interrupted a session
C30_Witness ==
  /\ call.op = "pointerdown"
  /\ emitted = <<>>
  /\ \E p \in PromiseIds :
       /\ promises[p].interruptedBy = "Pointer down on scroll container"
       /\ promises[p].calls = 1
  /\ ~Animating("c1")
  /\ raf = {}

(***************************************************************************)
(* The earlier class: new SmoothScroller(scrollContainer, options),        *)
(* smoothScrollTo, abortPriorScrolls                                       *)
(***************************************************************************)
\* null, and undefined of a field that was never assigned
Null == NaN - 1

\* !value
Falsy(value) == value = Null \/ IsNaN(value) \/ value = 0

\* the instance after the constructor, with the page it scrolls; of the
\* callbacks only onSmoothScrollStop may be given
NewVariant(stopScrollOnPointerDown, onSmoothScrollStop) ==
  [constructed |-> TRUE,
   scrollContainer |-> Element(ClientSize + 5, ClientSize + 6),
   cubicBezierSolver |-> CubicBezierSolver(easingKeywordMap["ease"]),
   defaultScrollDuration |-> DefaultDuration,
   stopScrollOnPointerDown |-> stopScrollOnPointerDown,
   onSmoothScrollStop |-> onSmoothScrollStop,
   isCurrentlyScrolling |-> FALSE,
   scrollDistanceX |-> Null,
   scrollDistanceY |-> Null,
   scrollRafId |-> 0,
   scrollStartingPointX |-> Null,
   scrollStartingPointY |-> Null,
   startTime |-> Null,
   duration |-> Null,
   elapsedTime |-> Null,
   resolve |-> 0,
   pointerIsDown |-> FALSE,
   promises |-> <<>>,
   raf |-> {},
   nextRafId |-> 1,
   now |-> 0,
   emitted |-> <<>>,
   call |-> [op |-> "new", options |-> EmptyObject, currentTime |-> NaN,
             limitCorrectedX |-> NaN, limitCorrectedY |-> NaN]]

\* getEventData(extraData)
getEventData(v, extraData) ==
  extraData @@
  [abortedBy |-> "null",
   x |-> v.scrollContainer.scrollLeft,
   y |-> v.scrollContainer.scrollTop,
   duration |-> v.duration,
   elapsedTime |-> v.elapsedTime]

\* a call of the resolve function of promise p
ResolveWith(ps, p, value) ==
  [ps EXCEPT ![p] = [calls |-> @.calls + 1,
                     abortedBy |-> IF @.calls = 0 THEN value.abortedBy
                                   ELSE @.abortedBy]]

\* abortPriorScrolls(extraData)
abortPriorScrolls(v, extraData) ==
  LET eventData == getEventData(v, extraData)
      resolved ==
        IF v.resolve # 0
        THEN [v EXCEPT
                !.promises = ResolveWith(@, v.resolve, eventData),
                !.emitted = Append(@, [type |-> "resolve", promise |-> v.resolve,
                                       detail |-> eventData])]
        ELSE v
      reported ==
        IF v.onSmoothScrollStop
        THEN [resolved EXCEPT
                !.emitted = Append(@, [type |-> "onSmoothScrollStop",
                                       promise |-> 0, detail |-> eventData])]
        ELSE resolved
  IN  [reported EXCEPT
         !.raf = {r \in @ : r.id # v.scrollRafId},
         !.scrollStartingPointX = Null,
         !.scrollStartingPointY = Null,
         !.scrollDistanceX = Null,
         !.scrollDistanceY = Null,
         !.startTime = Null,
         !.duration = Null,
         !.elapsedTime = Null,
         !.resolve = 0,
         !.isCurrentlyScrolling = FALSE]

\* new Promise((resolve) => { this.#resolve = resolve; ... })
VariantPromise(v) ==
  [v EXCEPT !.promises = Append(@, [calls |-> 0, abortedBy |-> "pending"]),
            !.resolve = Len(v.promises) + 1]

\* this.#scrollRafId = requestAnimationFrame(...): the callback keeps the
\* duration of the request
VariantRequestFrame(v, duration) ==
  [v EXCEPT !.raf = @ \cup {[id |-> v.nextRafId, duration |-> duration]},
            !.scrollRafId = v.nextRafId,
            !.nextRafId = @ + 1]

\* the default of the parameter y
DefaultY(v) == v.scrollContainer.scrollLeft

\* smoothScrollTo(options) with newSmoothScroll = true
smoothScrollTo(v, options) ==
  LET x == Default(options, "x", v.scrollContainer.scrollLeft)
      y == Default(options, "y", DefaultY(v))
      duration == Default(options, "duration", v.defaultScrollDuration)
      easing == IF Has(options, "easing") THEN easingKeywordMap[options.easing]
                ELSE easingKeywordMap["ease"]
      aborted == abortPriorScrolls(v, [abortedBy |-> "New smooth scroll"])
      notified == [aborted EXCEPT
                     !.emitted = Append(@, [type |-> "smoothscroll",
                                            promise |-> 0,
                                            detail |-> EmptyObject]),
                     !.isCurrentlyScrolling = TRUE,
                     !.cubicBezierSolver =
                       IF controlPointsMatchCurrentControlPoints(@, easing)
                       THEN @ ELSE CubicBezierSolver(easing)]
      el == notified.scrollContainer
      limitCorrectedX == LimitCorrected(x, RightEdge(el))
      limitCorrectedY == LimitCorrected(y, BottomEdge(el))
      scrollDistanceX == limitCorrectedX - el.scrollLeft
      scrollDistanceY == limitCorrectedY - el.scrollTop
      begun == [notified EXCEPT
                  !.scrollStartingPointX = el.scrollLeft,
                  !.scrollStartingPointY = el.scrollTop,
                  !.scrollDistanceX = scrollDistanceX,
                  !.scrollDistanceY = scrollDistanceY,
                  !.duration = duration,
                  !.call.limitCorrectedX = limitCorrectedX,
                  !.call.limitCorrectedY = limitCorrectedY]
  IN  IF ~IsFinite(x) \/ ~IsFinite(y)
      THEN abortPriorScrolls(
             VariantPromise(aborted),
             [abortedBy |-> "TypeError: X and Y must be finite numbers"])
      ELSE IF BelowOnePixel(scrollDistanceX, scrollDistanceY)
      THEN abortPriorScrolls(VariantPromise(begun),
                             [abortedBy |-> "X and Y scroll distance < 1"])
      ELSE IF duration <= 0
      THEN abortPriorScrolls(
             VariantPromise([begun EXCEPT
                               !.scrollContainer =
                                 ScrollTo(@, limitCorrectedX, limitCorrectedY)]),
             EmptyObject)
      ELSE VariantRequestFrame(VariantPromise(begun), duration)

\* smoothScrollTo called by the animation frame r with its timestamp
smoothScrollToTick(v, r, currentTime) ==
  LET started == IF Falsy(v.startTime) THEN [v EXCEPT !.startTime = currentTime]
                 ELSE v
      elapsedTime == currentTime - started.startTime
      elapsedTimeRatio == ElapsedTimeRatio(elapsedTime, r.duration)
      scrollRatio == solve(v.cubicBezierSolver, elapsedTimeRatio,
                           Epsilon(r.duration)).y
      el == v.scrollContainer
      movedX == IF ~Falsy(v.scrollDistanceX)
                THEN SetScrollLeft(el,
                       getNextScrollPosition(v.scrollStartingPointX, scrollRatio,
                                             v.scrollDistanceX))
                ELSE el
      movedY == IF ~Falsy(v.scrollDistanceY)
                THEN SetScrollTop(movedX,
                       getNextScrollPosition(v.scrollStartingPointY, scrollRatio,
                                             v.scrollDistanceY))
                ELSE movedX
      moved == [started EXCEPT !.elapsedTime = elapsedTime,
                               !.scrollContainer = movedY]
  IN  IF elapsedTimeRatio < Scale
      THEN VariantRequestFrame([moved EXCEPT !.isCurrentlyScrolling = TRUE],
                               r.duration)
      ELSE abortPriorScrolls(moved, EmptyObject)

\* the pointerdown listener of the constructor
variantPointerDown(v) ==
  IF v.pointerIsDown THEN v
  ELSE LET down == [v EXCEPT !.pointerIsDown = TRUE]
       IN  IF v.stopScrollOnPointerDown
           THEN abortPriorScrolls(
                  down, [abortedBy |-> "Pointer down on scroll container"])
           ELSE down

\* the pointerup and pointercancel listeners of the constructor
variantPointerUp(v) == [v EXCEPT !.pointerIsDown = FALSE]

\* the options smoothScrollTo is called with, offsets in 1/Px of a pixel
VariantOptions ==
  {x @@ y @@ d : x \in Opt("x", {5, Infinity}), y \in Opt("y", {6}),
                 d \in Opt("duration", {0})}
  \cup {("y" :> 6) @@ ("easing" :> "linear")}

VariantCall(op, options, currentTime) ==
  [op |-> op, options |-> options, currentTime |-> currentTime,
   limitCorrectedX |-> NaN, limitCorrectedY |-> NaN]

\* the instance at the start of a handler
VariantState(op, options, currentTime) ==
  [variant EXCEPT !.emitted = <<>>,
                  !.call = VariantCall(op, options, currentTime)]

VariantInit ==
  /\ PageLoaded
  /\ probe = NoProbe
  /\ variant \in {NewVariant(s, o) : s \in BOOLEAN, o \in BOOLEAN}

SmoothScrollTo(options) ==
  /\ Len(variant.promises) < MaxRequests
  /\ variant' = smoothScrollTo(VariantState("smoothScrollTo", options, NaN),
                               options)
  /\ UNCHANGED <<dom, scrollerMap, scroller, promises, raf, nextRafId, now,
                 emitted, call, constructed, probe>>

VariantAnimationFrame(r, dt) ==
  /\ r \in variant.raf
  /\ variant' =
       smoothScrollToTick(
         [VariantState("frame", EmptyObject, variant.now + dt) EXCEPT
            !.raf = @ \ {r}, !.now = @ + dt],
         r, variant.now + dt)
  /\ UNCHANGED <<dom, scrollerMap, scroller, promises, raf, nextRafId, now,
                 emitted, call, constructed, probe>>

\* abortPriorScrolls() called by the page
AbortPriorScrolls ==
  /\ variant' = abortPriorScrolls(
                  VariantState("abortPriorScrolls", EmptyObject, NaN),
                  EmptyObject)
  /\ UNCHANGED <<dom, scrollerMap, scroller, promises, raf, nextRafId, now,
                 emitted, call, constructed, probe>>

VariantPointerDown ==
  /\ variant' = variantPointerDown(VariantState("pointerdown", EmptyObject, NaN))
  /\ UNCHANGED <<dom, scrollerMap, scroller, promises, raf, nextRafId, now,
                 emitted, call, constructed, probe>>

VariantPointerUp ==
  /\ variant' = variantPointerUp(VariantState("pointerup", EmptyObject, NaN))
  /\ UNCHANGED <<dom, scrollerMap, scroller, promises, raf, nextRafId, now,
                 emitted, call, constructed, probe>>

VariantNext ==
  \/ \E options \in VariantOptions : SmoothScrollTo(options)
  \/ \E r \in variant.raf, dt \in FrameSteps : VariantAnimationFrame(r, dt)
  \/ AbortPriorScrolls
  \/ VariantPointerDown
  \/ VariantPointerUp

VariantSpec == VariantInit /\ [][VariantNext]_vars

\* the stop reports a handler of the earlier class emitted
VariantStopReports(v) ==
  {i \in 1..Len(v.emitted) : v.emitted[i].type = "onSmoothScrollStop"}

\* C31: in the earlier class, abortPriorScrolls on an instance without a
\* session resolves no promise and emits no stop report, and a new request on
\* an instance without a session emits no stop report for a previous session.
C31_IdleCancelIsNoOp ==
  [][(variant.constructed /\ variant.resolve = 0)
     => /\ variant'.call.op = "abortPriorScrolls"
           => variant'.emitted = <<>>
        /\ variant'.call.op = "smoothScrollTo"
           => \A i \in VariantStopReports(variant') :
                variant'.emitted[i].detail.abortedBy # "New smooth scroll"]_vars

\* C34: in the earlier class a request that omits y targets the current
\* vertical offset, so its vertical distance is zero and the vertical axis is
\* not moved, whatever the horizontal offset is.
C34_OmittedYKeepsVertical ==
  [][(/\ variant.constructed
      /\ variant'.call.op = "smoothScrollTo"
      /\ ~Has(variant'.call.options, "y")
      /\ IsFinite(Default(variant'.call.options, "x", 0)))
     => /\ variant'.call.limitCorrectedY = variant.scrollContainer.scrollTop
        /\ variant'.scrollContainer.scrollTop
             = variant.scrollContainer.scrollTop]_vars

\* the two loops of the solveCurveX call of the solved probe
NewtonRun == probe.curveX.newton

BisectionRun == probe.curveX.bisection

\* X(t) - x of the solved probe
CurveError(t) == sampleCurveX(probe.solver[1], t) - probe.x

C33_SolveReturns ==
  Solved => probe.result.returns

\* C38: at the start of every bisection iteration 0 <= t0 <= t <= t1 <= 1,
\* and a t that solveCurveX returns through a tolerance test satisfies
\* |X(t) - x| < epsilon.
C38_BracketAndTolerance ==
  Solved =>
    /\ \A i \in 1..Len(BisectionRun.steps) :
         LET step == BisectionRun.steps[i]
         IN  /\ 0 <= step[1]
             /\ step[1] <= step[3]
             /\ step[3] <= step[2]
             /\ step[2] <= Scale
    /\ (NewtonRun.left = "tolerance" \/ BisectionRun.left = "tolerance")
         => /\ probe.curveX.returns
            /\ Abs(CurveError(probe.curveX.t)) < probe.epsilon

\* bisection narrowed the bracket from both sides and returned through its
\* tolerance test
C38_Witness ==
  /\ Solved
  /\ BisectionRun.left = "tolerance"
  /\ \E i \in 1..Len(BisectionRun.steps) :
       BisectionRun.steps[i][1] > 0 /\ BisectionRun.steps[i][2] < Scale

\* the probe's easing is a 4-tuple that the constructor accepted
ConstructedFromTuple ==
  /\ probe.stage \in {"constructed", "solved", "solvedLater"}
  /\ Has(probe.easing, "controlPoints")

\* C39: of a solver constructed from an explicit 4-tuple, a y control point of
\* magnitude below the limit is kept unchanged, and one of magnitude at or
\* above the limit is replaced by a value of magnitude exactly the limit with
\* the sign of the input.
C39_YLimitedKeepingSign ==
  ConstructedFromTuple =>
    \A i \in {2, 4} :
      LET y == probe.easing.controlPoints[i]
          kept == probe.solver[1].controlPoints[i]
      IN  ~IsNaN(y) =>
            IF Abs(y) < YLimit THEN kept = y
            ELSE Abs(kept) = YLimit /\ ((kept < 0) <=> (y < 0))

\* getScrollerData() of the instance of container c
getScrollerData(c) ==
  [scrollContainer |-> c, scrolling |-> scroller[c].scrolling]

\* a scroll promise is pending on container c
PromisePending(c) ==
  scroller[c].scrollResolve # 0 /\ Pending(scroller[c].scrollResolve)

\* C36 as stated: the scrolling flag of getScrollerData is true exactly while
\* a scroll promise is pending on the container
C36_Original ==
  \A c \in scrollerMap : getScrollerData(c).scrolling <=> PromisePending(c)

\* C36: the scrolling flag of getScrollerData is true exactly from the first
\* animation frame of a session (where the start time is latched) until the
\* finalization of the session; it is false while an accepted animated
\* request waits for its first frame, although its promise is pending then,
\* and false when no promise is pending.
C36_ScrollingFromFirstFrame ==
  \A c \in scrollerMap :
    /\ getScrollerData(c).scrolling
         <=> (PromisePending(c) /\ ~IsNaN(scroller[c].scrollStartTime))
    /\ (PromisePending(c) /\ ~getScrollerData(c).scrolling)
         => /\ IsNaN(scroller[c].scrollStartTime)
            /\ \E r \in raf : r.container = c /\ r.id = scroller[c].scrollRafId

\* a session between two of its frames
C36_Witness ==
  \E c \in scrollerMap :
    /\ getScrollerData(c).scrolling
    /\ PromisePending(c)
    /\ \E r \in raf : r.container = c

(***************************************************************************)
(* Two scroll containers on one page                                       *)
(***************************************************************************)
\* the option objects the requests on the two containers are made with
PairOptions == {"y" :> 12, ("y" :> 12) @@ ("duration" :> 0)}

PairNext ==
  \/ \E c \in Elements, options \in PairOptions : Scroll(c, options)
  \/ \E r \in raf, dt \in FrameSteps : AnimationFrame(r, dt)
  \/ \E c \in Elements : PointerDown(c)

PairSpec == Init /\ [][PairNext]_vars

\* the promise of the session of container d, when it has one
SessionPromise(d, ps) ==
  IF scroller[d].scrollResolve = 0 THEN <<>>
  ELSE <<ps[scroller[d].scrollResolve]>>

\* C37: a request, tick, pointer-down or finalization on one container leaves
\* the pending promise, the scheduled tick, the session fields, the instance
\* and the offsets of every other container unchanged.
C37_OtherContainersUnchanged ==
  [][\A c \in Elements :
       call'.container = c =>
         \A d \in Elements \ {c} :
           /\ scroller'[d] = scroller[d]
           /\ dom'[d] = dom[d]
           /\ Scheduled(d, raf') = Scheduled(d, raf)
           /\ SessionPromise(d, promises') = SessionPromise(d, promises)
           /\ (d \in scrollerMap') <=> (d \in scrollerMap)]_vars

\* a handler has just run on one container while the other container has a
\* session with a pending promise and a scheduled tick
C37_Witness ==
  \E c \in Elements :
    /\ call.container = c
    /\ call.op \in {"frame", "pointerdown"}
    /\ \E d \in Elements \ {c} :
         /\ PromisePending(d)
         /\ Scheduled(d, raf) # {}
    /\ \E i \in 1..Len(emitted) : emitted[i].type = "smoothScrollerScrollStop"

(***************************************************************************)
(* A page that chains a scroll from a listener of the stop event           *)
(***************************************************************************)
\* the options of the scroll the listener requests
ChainedOptions == {"y" :> 3, ("y" :> 3) @@ ("duration" :> 0), "x" :> 12}

\* the options of the requests the page makes itself
ChainOptions == {"y" :> 12, ("y" :> 12) @@ ("duration" :> 0)}

\* the page has registered, on each container, a once-only listener of
\* smoothScrollerScrollStop that requests a scroll
ListeningElement(scrollWidth, scrollHeight, options) ==
  [scrollLeft |-> 0, scrollTop |-> 0,
   scrollWidth |-> scrollWidth, clientWidth |-> ClientSize,
   scrollHeight |-> scrollHeight, clientHeight |-> ClientSize,
   onScrollStop |-> options]

ChainInit ==
  /\ \E w \in ScrollWidths, h \in ScrollHeights, options \in ChainedOptions :
       dom = [e \in Elements |-> ListeningElement(w, h, options)]
  /\ ModuleLoaded
  /\ probe = NoProbe
  /\ variant = NoVariant

ChainNext ==
  \/ \E c \in Containers, options \in ChainOptions : Scroll(c, options)
  \/ \E r \in raf, dt \in FrameSteps : AnimationFrame(r, dt)
  \/ \E c \in Containers : PointerDown(c)

ChainSpec == ChainInit /\ [][ChainNext]_vars

\* C35: a scroll requested from inside a listener of a session's stop event is
\* carried out like any other request: while its promise is pending the
\* instance holds its resolve function and its tick is scheduled, so the
\* finalization in progress neither cancels the tick nor clears the session.
C35_ChainedScrollCarriedOut ==
  \A p \in DOMAIN promises :
    Pending(p) =>
      \E c \in Elements :
        /\ scroller[c].scrollResolve = p
        /\ \E r \in raf : r.container = c /\ r.id = scroller[c].scrollRafId
====
